---------------------------- MODULE Spec2Model ----------------------------
(***************************************************************************)
(* A model of the geometric (SE(3)) flight controller of mmuav_control,    *)
(* src/mmuav_control/src/UavGeometryControl.cpp: the node's main(), the    *)
(* blocking startup waits, the fixed-rate control loop, the subscriber     *)
(* callbacks and the control law of one tick.                              *)
(*                                                                         *)
(* Numbers.  A C++ double is modelled as a record: a finite value in       *)
(* fixed point (an integer count of 1/SCALE), or one of the IEEE-754       *)
(* special values NaN, +infinity, -infinity.  The arithmetic follows       *)
(* IEEE-754 on the special values (0*inf = NaN, x/0 = +-inf, 0/0 = NaN,    *)
(* every comparison with NaN false) and rounds finite results toward zero  *)
(* to the fixed-point grid.  Angles are whole quarter turns, on which      *)
(* sin/cos/tan/atan2/asin are exact.                                       *)
(***************************************************************************)
EXTENDS Integers, Sequences, FiniteSets, TLC

(***************************************************************************)
(* Fixed-point doubles                                                     *)
(***************************************************************************)
SCALE == 100

Fin(n) == [k |-> "fin", v |-> n]
NaN == [k |-> "nan", v |-> 0]
Inf(s) == [k |-> "inf", v |-> s]
FInt(n) == Fin(n * SCALE)
Zero == Fin(0)
One == Fin(SCALE)

Sgn(n) == IF n > 0 THEN 1 ELSE IF n < 0 THEN -1 ELSE 0
Abs(n) == IF n < 0 THEN -n ELSE n
\* integer division rounding toward zero, for b > 0
TDiv(a, b) == IF a >= 0 THEN a \div b ELSE -((-a) \div b)

IsNaN(a) == a.k = "nan"
IsFin(a) == a.k = "fin"
FSgn(a) == IF a.k = "inf" THEN a.v ELSE Sgn(a.v)

FNeg(a) == [k |-> a.k, v |-> -a.v]

FAdd(a, b) ==
  IF a.k = "fin" /\ b.k = "fin" THEN Fin(a.v + b.v)
  ELSE IF a.k = "nan" \/ b.k = "nan" THEN NaN
  ELSE IF a.k = "inf" THEN (IF b.k = "inf" /\ b.v # a.v THEN NaN ELSE a)
  ELSE b

FSub(a, b) == FAdd(a, FNeg(b))

FMul(a, b) ==
  IF a.k = "fin" /\ b.k = "fin" THEN Fin(TDiv(a.v * b.v, SCALE))
  ELSE IF a.k = "nan" \/ b.k = "nan" THEN NaN
  ELSE IF FSgn(a) = 0 \/ FSgn(b) = 0 THEN NaN
  ELSE Inf(FSgn(a) * FSgn(b))

FDiv(a, b) ==
  IF a.k = "nan" \/ b.k = "nan" THEN NaN
  ELSE IF a.k = "inf"
       THEN (IF b.k = "inf" THEN NaN
             ELSE Inf(a.v * (IF b.v < 0 THEN -1 ELSE 1)))
  ELSE IF b.k = "inf" THEN Zero
  ELSE IF b.v = 0 THEN (IF a.v = 0 THEN NaN ELSE Inf(Sgn(a.v)))
  ELSE IF b.v > 0 THEN Fin(TDiv(a.v * SCALE, b.v))
  ELSE Fin(TDiv(-(a.v * SCALE), -b.v))

\* a < b on doubles: false whenever an operand is NaN
FLt(a, b) ==
  IF a.k = "nan" \/ b.k = "nan" THEN FALSE
  ELSE IF a.k = "inf" THEN a.v < 0 /\ ~(b.k = "inf" /\ b.v < 0)
  ELSE IF b.k = "inf" THEN b.v > 0
  ELSE a.v < b.v

FGt(a, b) == FLt(b, a)

\* a != b on doubles: true whenever an operand is NaN
FNe(a, b) == a.k = "nan" \/ b.k = "nan" \/ a # b

RECURSIVE SqrtSearch(_, _, _)
SqrtSearch(n, lo, hi) ==
  IF lo >= hi THEN lo
  ELSE CHOOSE r \in { IF mid * mid <= n THEN SqrtSearch(n, mid, hi)
                      ELSE SqrtSearch(n, lo, mid - 1) :
                      mid \in {(lo + hi + 1) \div 2} } : TRUE

\* floor of the square root of a natural number below 2^31
ISqrt(n) ==
  CHOOSE r \in { SqrtSearch(m, 0, IF m < 46340 THEN m ELSE 46340) : m \in {n} } :
    TRUE

FSqrt(a) ==
  IF a.k = "nan" THEN NaN
  ELSE IF a.k = "inf" THEN (IF a.v > 0 THEN a ELSE NaN)
  ELSE IF a.v < 0 THEN NaN
  ELSE Fin(ISqrt(a.v * SCALE))

FAbs(a) == IF a.k = "nan" THEN NaN ELSE [k |-> a.k, v |-> Abs(a.v)]

(***************************************************************************)
(* Eigen vectors and matrices: a vector is a sequence of doubles, a matrix *)
(* a sequence of rows.                                                     *)
(***************************************************************************)
\* B applied to the value of v (of u and v): the value is computed once,
\* however often B uses it
With(v, B(_)) == CHOOSE r \in { B(x) : x \in {v} } : TRUE
With2(u, v, B(_, _)) == CHOOSE r \in { B(x, y) : x \in {u}, y \in {v} } : TRUE

\* the sequence <<F(1), ..., F(n)>> for the sizes in use (3 and 4)
Tab(F(_), n) ==
  IF n = 3 THEN << F(1), F(2), F(3) >> ELSE << F(1), F(2), F(3), F(4) >>

\* left-to-right sum of a sequence of 3 or 4 doubles
FSum(s) ==
  With(s, LAMBDA x :
    IF Len(x) = 3 THEN FAdd(FAdd(x[1], x[2]), x[3])
    ELSE FAdd(FAdd(FAdd(x[1], x[2]), x[3]), x[4]))

VAdd(a, b) ==
  With2(a, b, LAMBDA x, y : Tab(LAMBDA i : FAdd(x[i], y[i]), Len(x)))
VSub(a, b) ==
  With2(a, b, LAMBDA x, y : Tab(LAMBDA i : FSub(x[i], y[i]), Len(x)))
VNeg(a) == With(a, LAMBDA x : Tab(LAMBDA i : FNeg(x[i]), Len(x)))
VScale(s, a) ==
  With2(s, a, LAMBDA c, x : Tab(LAMBDA i : FMul(c, x[i]), Len(x)))
VDivS(a, s) ==
  With2(a, s, LAMBDA x, c : Tab(LAMBDA i : FDiv(x[i], c), Len(x)))
Dot(a, b) ==
  With2(a, b, LAMBDA x, y : FSum(Tab(LAMBDA i : FMul(x[i], y[i]), Len(x))))
Norm(a) == With(a, LAMBDA x : FSqrt(Dot(x, x)))
Cross(a, b) ==
  With2(a, b, LAMBDA x, y :
    << FSub(FMul(x[2], y[3]), FMul(x[3], y[2])),
       FSub(FMul(x[3], y[1]), FMul(x[1], y[3])),
       FSub(FMul(x[1], y[2]), FMul(x[2], y[1])) >>)

MatVec(m, x) ==
  With2(m, x, LAMBDA a, v : Tab(LAMBDA i : Dot(a[i], v), Len(a)))
Col(m, j) == With(m, LAMBDA a : Tab(LAMBDA i : a[i][j], Len(a)))
Transpose(m) == With(m, LAMBDA a : Tab(LAMBDA j : Col(a, j), Len(a[1])))
\* a * bt', for bt the transpose of the right factor
MatMulT(a, bt) ==
  With2(a, bt, LAMBDA x, y :
    Tab(LAMBDA i : Tab(LAMBDA j : Dot(x[i], y[j]), Len(y)), Len(x)))
MatMul(a, b) == MatMulT(a, Transpose(b))
MatAdd(a, b) ==
  With2(a, b, LAMBDA x, y : Tab(LAMBDA i : VAdd(x[i], y[i]), Len(x)))
MatSub(a, b) ==
  With2(a, b, LAMBDA x, y : Tab(LAMBDA i : VSub(x[i], y[i]), Len(x)))
MatNeg(a) == With(a, LAMBDA x : Tab(LAMBDA i : VNeg(x[i]), Len(x)))
MatScale(s, a) ==
  With2(s, a, LAMBDA c, x : Tab(LAMBDA i : VScale(c, x[i]), Len(x)))
MatDivS(a, s) ==
  With2(a, s, LAMBDA x, c : Tab(LAMBDA i : VDivS(x[i], c), Len(x)))
FromCols(c1, c2, c3) == Transpose(<<c1, c2, c3>>)
Diag3(x, y, z) == << <<x, Zero, Zero>>, <<Zero, y, Zero>>, <<Zero, Zero, z>> >>
SetDiag(m, i, x) == [m EXCEPT ![i][i] = x]

ZeroVec3 == <<Zero, Zero, Zero>>
ZeroMat3 == <<ZeroVec3, ZeroVec3, ZeroVec3>>
FinVec(x, y, z) == <<Fin(x), Fin(y), Fin(z)>>
IntVec(x, y, z) == <<FInt(x), FInt(y), FInt(z)>>
IsFinVec(a) == \A i \in 1..Len(a) : IsFin(a[i])

\* const Matrix<double, 3, 1> E3(0, 0, 1) and the eye(3), "eye(4)" helpers
E3 == <<Zero, Zero, One>>
EYE3 == Diag3(One, One, One)
EYE4 == << <<One, Zero, Zero, Zero>>, <<Zero, Zero, Zero, Zero>>,
           <<Zero, Zero, Zero, Zero>>, <<Zero, Zero, Zero, One>> >>

(***************************************************************************)
(* Geometry kernel                                                         *)
(***************************************************************************)
hatOperator(x, y, z) ==
  << <<Zero, FNeg(z), y>>,
     <<z, Zero, FNeg(x)>>,
     <<FNeg(y), x, Zero>> >>

veeOperator(m) == With(m, LAMBDA a : << a[3][2], a[1][3], a[2][1] >>)

\* saturate(x, lo, hi): clamps, lo <= result <= hi for every x; a NaN, which
\* no comparison orders, has to land in the range too and is sent to lo
saturation(value, lowLimit, highLimit) ==
  With(value, LAMBDA x :
    IF FGt(x, highLimit) THEN highLimit
    ELSE IF FLt(x, lowLimit) \/ IsNaN(x) THEN lowLimit
    ELSE x)

\* sin, cos, tan of an angle of q quarter turns
SinQ(q) == CASE q % 4 = 0 -> Zero [] q % 4 = 1 -> One
             [] q % 4 = 2 -> Zero [] q % 4 = 3 -> FNeg(One)
CosQ(q) == SinQ(q + 1)
TanQ(q) == FDiv(SinQ(q), CosQ(q))

\* atan2 and asin where the result is a whole number of quarter turns
Atan2Q(y, x) ==
  CASE y = 0 /\ x >= 0 -> 0
    [] y > 0 /\ x = 0 -> 1
    [] y = 0 /\ x < 0 -> 2
    [] y < 0 /\ x = 0 -> -1
AsinQ(v) == CASE v = 0 -> 0 [] v = 1 -> 1 [] v = -1 -> -1

\* A unit quaternion component c is carried as the integer n with
\* c = sgn(n) * sqrt(|n| / 2); QTwice(a, b) is 2 * ca * cb.
QTwice(a, b) == Sgn(a * b) * ISqrt(Abs(a * b))

\* quaternion = <<w, x, y, z>>; the result <<roll, pitch, yaw>> in quarter turns
quaternion2euler(q) ==
  << Atan2Q(QTwice(q[1], q[2]) + QTwice(q[3], q[4]),
            1 - (QTwice(q[2], q[2]) + QTwice(q[3], q[3]))),
     AsinQ(QTwice(q[1], q[3]) - QTwice(q[4], q[2])),
     Atan2Q(QTwice(q[1], q[4]) + QTwice(q[2], q[3]),
            1 - (QTwice(q[3], q[3]) + QTwice(q[4], q[4]))) >>

euler2RotationMatrix(roll, pitch, yaw) ==
  LET sx == SinQ(roll)  cx == CosQ(roll)
      sy == SinQ(pitch) cy == CosQ(pitch)
      sz == SinQ(yaw)   cz == CosQ(yaw)
  IN << << FMul(cy, cz),
           FSub(FMul(FMul(sx, sy), cz), FMul(cx, sz)),
           FAdd(FMul(FMul(cx, sy), cz), FMul(sx, sz)) >>,
        << FMul(cy, sz),
           FAdd(FMul(FMul(sx, sy), sz), FMul(cx, cz)),
           FSub(FMul(FMul(cx, sy), sz), FMul(sx, cz)) >>,
        << FNeg(sy), FMul(sx, cy), FMul(cx, cy) >> >>

(***************************************************************************)
(* Vehicle parameters (MmuavParameters.hpp), in fixed point.  Rotor        *)
(* speeds are counted in units of 100 rad/s, so that the motor constant    *)
(* is representable.                                                       *)
(***************************************************************************)
UAV_MASS == 208
G == 981
MM_MASS == 21
MM_FORCE == 206
ARM_LENGTH == 30
PAYLOAD_MASS == 10
PAYLOAD_FORCE == 98
TOTAL_LINK_MASS == 20
MOTOR_CONSTANT == 9
MAX_ROTOR_VELOCITY == 1475

initializeBodyInertia == Diag3(Fin(8), Fin(8), Fin(1))
initializeMovableMassInertia == Diag3(Fin(1), Fin(1), Fin(1))
initializePayloadInertia == Diag3(Fin(1), Fin(1), Fin(1))

\* rows: rotors 0..3; columns: thrust, roll, pitch and yaw moment
initializeThrustTransform ==
  << <<Fin(25), Zero, Fin(-167), Fin(250)>>,
     <<Fin(25), Fin(167), Zero, Fin(-250)>>,
     <<Fin(25), Zero, Fin(167), Fin(250)>>,
     <<Fin(25), Fin(-167), Zero, Fin(-250)>> >>

THRUST_TRANSFORM_FULL == initializeThrustTransform
THRUST_TRANSFORM_YAW == MatMul(THRUST_TRANSFORM_FULL, EYE4)

POSITION_CONTROL == 1
ATTITUDE_CONTROL == 2
VELOCITY_CONTROL == 3
DISCRETIZATION_RATE == 10

\* resolution of ros::Time in the model: clock units per second
CLOCK_HZ == 40
\* the node's "rate" parameter (Hz)
RATE == 20

(***************************************************************************)
(* The UavGeometryControl object                                           *)
(***************************************************************************)
EmptyStatus ==
  [ e_x |-> ZeroVec3, e_v |-> ZeroVec3, b1_d |-> ZeroVec3,
    e_R |-> ZeroVec3, e_omega |-> ZeroVec3,
    rotor_velocities |-> <<Zero, Zero, Zero, Zero>> ]

ZeroConfig ==
  [ kx_xy |-> Zero, kx_z |-> Zero, kv_xy |-> Zero, kv_z |-> Zero,
    kR_xy |-> Zero, kR_z |-> Zero, kOm_xy |-> Zero, kOm_z |-> Zero ]

\* setInitialValues(): every member it assigns
setInitialValues(o) ==
  [ o EXCEPT
      !.imu_start_flag_ = FALSE,
      !.pose_start_flag_ = FALSE,
      !.velocity_start_flag_ = FALSE,
      !.param_start_flag_ = FALSE,
      !.enable_mass_control_ = FALSE,
      !.current_control_mode_ = POSITION_CONTROL,
      !.x_d_ = ZeroVec3, !.v_d_ = ZeroVec3, !.a_d_ = ZeroVec3,
      !.x_mv_ = ZeroVec3, !.v_mv_ = ZeroVec3,
      !.omega_d_ = ZeroVec3, !.alpha_d_ = ZeroVec3,
      !.b1_d_ = <<One, Zero, Zero>>,
      !.R_d_ = ZeroMat3,
      !.euler_d_ = <<0, 0, 0>>,
      !.omega_mv_ = ZeroVec3,
      !.R_mv_ = EYE3,
      !.R_c_old_ = EYE3,
      !.R_c_dot_old_ = ZeroMat3 ]

\* The members no constructor code assigns hold whatever the memory held:
\* enable_manipulator_control_ (manip), the four mass positions (m) and the
\* two gripper positions (g).  ROS message members start zeroed.
RawObject(manip, m, g) ==
  [ controller_rate_ |-> 0,
    imu_start_flag_ |-> FALSE, pose_start_flag_ |-> FALSE,
    velocity_start_flag_ |-> FALSE, param_start_flag_ |-> FALSE,
    enable_mass_control_ |-> FALSE,
    enable_manipulator_control_ |-> manip,
    calc_desired_flag_ |-> FALSE,
    current_control_mode_ |-> 0,
    x_d_ |-> ZeroVec3, v_d_ |-> ZeroVec3, a_d_ |-> ZeroVec3,
    x_mv_ |-> ZeroVec3, v_mv_ |-> ZeroVec3,
    omega_d_ |-> ZeroVec3, alpha_d_ |-> ZeroVec3,
    b1_d_ |-> ZeroVec3, R_d_ |-> ZeroMat3, euler_d_ |-> <<0, 0, 0>>,
    omega_mv_ |-> ZeroVec3, R_mv_ |-> ZeroMat3,
    R_c_old_ |-> ZeroMat3, R_c_dot_old_ |-> ZeroMat3,
    euler_mv_ |-> <<0, 0, 0>>, euler_rate_mv_ |-> ZeroVec3,
    ro_cm_ |-> ZeroVec3,
    mass0_mv_ |-> m, mass1_mv_ |-> m, mass2_mv_ |-> m, mass3_mv_ |-> m,
    gripperLeft_mv_ |-> <<g, g, g>>, gripperRight_mv_ |-> <<g, g, g>>,
    inertia_ |-> ZeroMat3, mass_inertia_ |-> ZeroMat3,
    payload_inertia_ |-> ZeroMat3,
    uav_mass_ |-> Zero,
    k_x_ |-> ZeroMat3, k_v_ |-> ZeroMat3,
    k_R_ |-> ZeroMat3, k_omega_ |-> ZeroMat3,
    mass_subscribed_ |-> FALSE, gripper_subscribed_ |-> FALSE,
    server_config_ |-> ZeroConfig,
    status_msg_ |-> EmptyStatus ]

\* UavGeometryControl::UavGeometryControl(rate, uav_ns)
Constructor(rate, manip, m, g) ==
  [ setInitialValues([RawObject(manip, m, g) EXCEPT !.controller_rate_ = rate])
    EXCEPT
      !.inertia_ = initializeBodyInertia,
      !.mass_inertia_ = initializeMovableMassInertia,
      !.payload_inertia_ = initializePayloadInertia,
      !.uav_mass_ = Fin(UAV_MASS),
      !.k_x_ = Diag3(Fin(720), Fin(720), Fin(5000)),
      !.k_v_ = Diag3(Fin(260), Fin(260), Fin(2000)),
      !.k_R_ = Diag3(Fin(152), Fin(152), Fin(1200)),
      !.k_omega_ = Diag3(Fin(65), Fin(65), Fin(154)) ]

(***************************************************************************)
(* Startup options: the variant switches called by main()                  *)
(***************************************************************************)
enableMassControl(o) ==
  [ o EXCEPT
      !.enable_mass_control_ = TRUE,
      !.enable_manipulator_control_ = FALSE,
      !.uav_mass_ = FAdd(@, FMul(FInt(4), Fin(MM_MASS))),
      !.mass_subscribed_ = TRUE ]

disableMassControl(o) == [o EXCEPT !.enable_mass_control_ = FALSE]

\* enableManipulatorControl without the reset of enable_mass_control_
enableManipulatorControlKeepingMass(o) ==
  [ o EXCEPT
      !.enable_manipulator_control_ = TRUE,
      !.uav_mass_ =
         FAdd(@, FAdd(FMul(FInt(2), Fin(PAYLOAD_MASS)), Fin(TOTAL_LINK_MASS))),
      !.gripper_subscribed_ = TRUE ]

enableManipulatorControl(o) ==
  [ o EXCEPT
      !.enable_manipulator_control_ = TRUE,
      !.enable_mass_control_ = FALSE,
      !.uav_mass_ =
         FAdd(@, FAdd(FMul(FInt(2), Fin(PAYLOAD_MASS)), Fin(TOTAL_LINK_MASS))),
      !.gripper_subscribed_ = TRUE ]

disableManipulatorControl(o) == [o EXCEPT !.enable_manipulator_control_ = FALSE]

(***************************************************************************)
(* Subscriber callbacks.  msg is the message; the result is the object     *)
(* after the callback.                                                     *)
(***************************************************************************)
\* param_cb without the first-call branch
param_cbOverwriting(o, msg) ==
  LET c == msg.config
  IN [ o EXCEPT
         !.param_start_flag_ = TRUE,
         !.k_x_ = Diag3(c.kx_xy, c.kx_xy, c.kx_z),
         !.k_v_ = Diag3(c.kv_xy, c.kv_xy, c.kv_z),
         !.k_R_ = Diag3(c.kR_xy, c.kR_xy, c.kR_z),
         !.k_omega_ = Diag3(c.kOm_xy, c.kOm_xy, c.kOm_z) ]

param_cb(o, msg) ==
  IF ~o.param_start_flag_
  THEN [ o EXCEPT
           !.param_start_flag_ = TRUE,
           !.server_config_ =
              [ kx_xy |-> o.k_x_[1][1], kx_z |-> o.k_x_[3][3],
                kv_xy |-> o.k_v_[1][1], kv_z |-> o.k_v_[3][3],
                kR_xy |-> o.k_R_[1][1], kR_z |-> o.k_R_[3][3],
                kOm_xy |-> o.k_omega_[1][1], kOm_z |-> o.k_omega_[3][3] ] ]
  ELSE LET c == msg.config
       IN [ o EXCEPT
              !.k_x_ = SetDiag(SetDiag(SetDiag(@, 1, c.kx_xy), 2, c.kx_xy), 3, c.kx_z),
              !.k_v_ = SetDiag(SetDiag(SetDiag(@, 1, c.kv_xy), 2, c.kv_xy), 3, c.kv_z),
              !.k_R_ = SetDiag(SetDiag(SetDiag(@, 1, c.kR_xy), 2, c.kR_xy), 3, c.kR_z),
              !.k_omega_ =
                 SetDiag(SetDiag(SetDiag(@, 1, c.kOm_xy), 2, c.kOm_xy), 3, c.kOm_z) ]

ctl_mode_cb(o, msg) == [o EXCEPT !.current_control_mode_ = msg.data]

xd_cb(o, msg) == [o EXCEPT !.x_d_ = msg.vec]
vd_cb(o, msg) == [o EXCEPT !.v_d_ = msg.vec]
ad_cb(o, msg) == [o EXCEPT !.a_d_ = msg.vec]
b1d_cb(o, msg) == [o EXCEPT !.b1_d_ = VDivS(msg.vec, Norm(msg.vec))]
omegad_cb(o, msg) == [o EXCEPT !.omega_d_ = msg.vec]
alphad_cb(o, msg) == [o EXCEPT !.alpha_d_ = msg.vec]
rd_cb(o, msg) == [o EXCEPT !.R_d_ = msg.data]
euler_cb(o, msg) == [o EXCEPT !.euler_d_ = msg.angles]

pose_cb(o, msg) ==
  [o EXCEPT !.pose_start_flag_ = TRUE, !.x_mv_ = msg.position]

vel_cb(o, msg) ==
  LET yaw == o.euler_mv_[3]
      lin == msg.linear
  IN [ o EXCEPT
         !.velocity_start_flag_ = TRUE,
         !.v_mv_ =
            << FSub(FMul(CosQ(yaw), lin[1]), FMul(SinQ(yaw), lin[2])),
               FAdd(FMul(SinQ(yaw), lin[1]), FMul(CosQ(yaw), lin[2])),
               lin[3] >> ]

\* the Euler-angle rates imu_cb derives from the body rates <<p, q, r>>
EulerRates(euler, w) ==
  LET p == w[1]
      q == w[2]
      r == w[3]
      sx == SinQ(euler[1])
      cx == CosQ(euler[1])
      cy == CosQ(euler[2])
      ty == TanQ(euler[2])
  IN << FAdd(FAdd(p, FMul(FMul(sx, ty), q)), FMul(FMul(cx, ty), r)),
        FSub(FMul(cx, q), FMul(sx, r)),
        FAdd(FMul(FDiv(sx, cy), q), FMul(FDiv(cx, cy), r)) >>

imu_cb(o, msg) ==
  With(quaternion2euler(msg.orientation), LAMBDA euler :
  With(EulerRates(euler, msg.angular_velocity), LAMBDA rate :
    [ o EXCEPT
        !.imu_start_flag_ = TRUE,
        !.euler_mv_ = euler,
        !.euler_rate_mv_ = rate,
        !.omega_mv_ = rate,
        !.R_mv_ = euler2RotationMatrix(euler[1], euler[2], euler[3]) ]))

HalfArm == FDiv(Fin(ARM_LENGTH), FInt(2))

mass0_cb(o, msg) == [o EXCEPT !.mass0_mv_ = FAdd(HalfArm, msg.process_value)]
mass1_cb(o, msg) == [o EXCEPT !.mass1_mv_ = FAdd(HalfArm, msg.process_value)]
mass2_cb(o, msg) == [o EXCEPT !.mass2_mv_ = FAdd(HalfArm, msg.process_value)]
mass3_cb(o, msg) == [o EXCEPT !.mass3_mv_ = FAdd(HalfArm, msg.process_value)]
gripperLeft_cb(o, msg) == [o EXCEPT !.gripperLeft_mv_ = msg.point]
gripperRight_cb(o, msg) == [o EXCEPT !.gripperRight_mv_ = msg.point]

(***************************************************************************)
(* The control law of one tick                                             *)
(***************************************************************************)
VariantActive(o) == o.enable_mass_control_ \/ o.enable_manipulator_control_

calculateCenterOfMass(o) ==
  IF o.enable_mass_control_
  THEN << FDiv(FAdd(FMul(Fin(MM_MASS), o.mass0_mv_),
                    FMul(Fin(MM_MASS), FNeg(o.mass2_mv_))), o.uav_mass_),
          FDiv(FAdd(FMul(Fin(MM_MASS), o.mass1_mv_),
                    FMul(Fin(MM_MASS), FNeg(o.mass3_mv_))), o.uav_mass_),
          Zero >>
  ELSE IF o.enable_manipulator_control_
  THEN VDivS(VAdd(VScale(Fin(PAYLOAD_MASS), o.gripperLeft_mv_),
                  VScale(Fin(PAYLOAD_MASS), o.gripperRight_mv_)), o.uav_mass_)
  ELSE ZeroVec3

\* TrajectoryModeInvalid with a branch for the declared Velocity mode
TrajectoryModeUndeclared(mode) ==
  mode \notin {POSITION_CONTROL, ATTITUDE_CONTROL, VELOCITY_CONTROL}

\* The mode test of trajectoryTracking: TRUE when the mode has no branch
\* and the function throws "Invalid control mode given."
TrajectoryModeInvalid(mode) ==
  mode # POSITION_CONTROL /\ mode # ATTITUDE_CONTROL

\* PositionError without the test of the control mode
PositionErrorFull(o, pos_desired) == VSub(o.x_mv_, pos_desired)

\* e_x of trajectoryTracking
PositionError(o, pos_desired) ==
  IF o.current_control_mode_ = POSITION_CONTROL
  THEN VSub(o.x_mv_, pos_desired)
  ELSE VScale(FSub(o.x_mv_[3], pos_desired[3]), E3)

VelocityError(o) ==
  IF o.current_control_mode_ = POSITION_CONTROL
  THEN VSub(o.v_mv_, o.v_d_)
  ELSE VScale(FSub(o.v_mv_[3], o.v_d_[3]), E3)

\* the desired control force A of trajectoryTracking
ControlForce(o, e_x, e_v) ==
  LET A0 == VAdd(VAdd(VSub(MatVec(MatNeg(o.k_x_), e_x), MatVec(o.k_v_, e_v)),
                      VScale(FMul(o.uav_mass_, Fin(G)), E3)),
                 VScale(o.uav_mass_, o.a_d_))
      skew_omega == hatOperator(o.omega_mv_[1], o.omega_mv_[2], o.omega_mv_[3])
      skew_ro == hatOperator(o.ro_cm_[1], o.ro_cm_[2], o.ro_cm_[3])
      additionalDynamics ==
        VSub(VScale(FNeg(o.uav_mass_),
                    Cross(MatVec(o.R_mv_, o.ro_cm_), o.alpha_d_)),
             MatVec(MatMul(MatMul(MatScale(o.uav_mass_, o.R_mv_), skew_omega),
                           skew_ro),
                    o.omega_mv_))
  IN IF VariantActive(o) THEN VAdd(A0, additionalDynamics) ELSE A0

\* result: thrown, or the outputs b3_d, f_u and the errors put in status_msg_
trajectoryTracking(o, pos_desired) ==
  IF TrajectoryModeInvalid(o.current_control_mode_)
  THEN [ thrown |-> TRUE, b3_d |-> ZeroVec3, f_u |-> Zero,
         e_x |-> ZeroVec3, e_v |-> ZeroVec3 ]
  ELSE
    With(PositionError(o, pos_desired), LAMBDA e_x :
    With(VelocityError(o), LAMBDA e_v :
    With(ControlForce(o, e_x, e_v), LAMBDA A :
      [ thrown |-> FALSE,
        f_u |-> Dot(A, MatVec(o.R_mv_, E3)),
        b3_d |-> VDivS(A, Norm(A)),
        e_x |-> e_x, e_v |-> e_v ])))

calculateAdjustedInertia(o) ==
  LET J == o.inertia_
      m0 == o.mass0_mv_  m1 == o.mass1_mv_
      m2 == o.mass2_mv_  m3 == o.mass3_mv_
      gl == o.gripperLeft_mv_
      gr == o.gripperRight_mv_
      MM == Fin(MM_MASS)
      PM == Fin(PAYLOAD_MASS)
      Sq(a, b) == FMul(a, b)
      Put(x, y, z) == SetDiag(SetDiag(SetDiag(J, 1, x), 2, y), 3, z)
  IN IF o.enable_mass_control_
     THEN Put(
       FAdd(FAdd(FAdd(J[1][1], FMul(Sq(m1, m1), MM)), FMul(Sq(m3, m3), MM)),
            o.mass_inertia_[1][1]),
       FAdd(FAdd(FAdd(J[2][2], FMul(Sq(m0, m0), MM)), FMul(Sq(m2, m2), MM)),
            o.mass_inertia_[2][2]),
       FAdd(FAdd(FAdd(FAdd(FAdd(J[3][3], FMul(Sq(m1, m1), MM)),
                           FMul(Sq(m3, m3), MM)),
                      FMul(Sq(m0, m0), MM)),
                 FMul(Sq(m2, m2), MM)),
            FMul(FInt(4), o.mass_inertia_[3][3])))
     ELSE IF o.enable_manipulator_control_
     THEN Put(
       FAdd(FAdd(FAdd(J[1][1],
                      FMul(FAdd(Sq(gl[2], gl[2]), Sq(gl[3], gl[3])), PM)),
                 FMul(FAdd(Sq(gr[2], gr[2]), Sq(gl[3], gr[3])), PM)),
            FMul(FInt(2), o.payload_inertia_[1][1])),
       FAdd(FAdd(FAdd(J[2][2],
                      FMul(FMul(FAdd(Sq(gl[1], gl[1]), Sq(gl[3], gl[3])), PM),
                           FInt(2))),
                 FMul(FAdd(Sq(gr[1], gr[1]), Sq(gl[3], gr[3])), PM)),
            FMul(FInt(2), o.payload_inertia_[2][2])),
       FAdd(FAdd(FAdd(J[3][3],
                      FMul(FMul(FAdd(Sq(gl[1], gl[1]), Sq(gl[1], gl[1])), PM),
                           FInt(2))),
                 FMul(FAdd(Sq(gr[3], gr[3]), Sq(gl[3], gr[3])), PM)),
            FMul(FInt(2), o.payload_inertia_[3][3])))
     ELSE J

\* The desired rotation of attitudeTracking: calculated from the heading
\* and the thrust direction in Position mode (R_c), read from the desired
\* Euler angles in Attitude mode.
DesiredRotation(o, b1_desired, b3_desired) ==
  IF o.current_control_mode_ = POSITION_CONTROL
  THEN With(Cross(b3_desired, b1_desired), LAMBDA b13_normal :
       With(VDivS(VNeg(Cross(b3_desired, b13_normal)), Norm(b13_normal)),
            LAMBDA b1_c :
       With(Cross(b3_desired, b1_c), LAMBDA b2_c :
         FromCols(b1_c, VDivS(b2_c, Norm(b2_c)), b3_desired))))
  ELSE euler2RotationMatrix(o.euler_d_[1], o.euler_d_[2], o.euler_d_[3])

\* e_R = vee((R_d' * R_mv - R_mv' * R_d) / 2)
AttitudeError(o, R_d) ==
  veeOperator(MatDivS(MatSub(MatMul(Transpose(R_d), o.R_mv_),
                             MatMul(Transpose(o.R_mv_), R_d)), FInt(2)))

\* e_omega = omega_mv - R_mv' * R_d * omega_d
AngularVelocityError(o, R_d) ==
  VSub(o.omega_mv_, MatVec(MatMul(Transpose(o.R_mv_), R_d), o.omega_d_))

\* AngularVelocityErrorFault with the test left out
AngularVelocityErrorFaultNever(e_omega) == FALSE

\* The fault test of attitudeTracking on the angular-velocity error:
\* e_omega(0, 0) != e_omega(0, 0)
AngularVelocityErrorFault(e_omega) == FNe(e_omega[1], e_omega[1])

\* the control moment M_u of attitudeTracking before saturation
ControlMoment(o, R_d, e_R, e_omega, adjustedInertia) ==
  LET omega_mv_skew ==
        hatOperator(o.omega_mv_[1], o.omega_mv_[2], o.omega_mv_[3])
      additionalDynamics ==
        IF VariantActive(o)
        THEN VScale(o.uav_mass_,
                    Cross(o.ro_cm_, MatVec(Transpose(o.R_mv_), o.a_d_)))
        ELSE ZeroVec3
  IN VAdd(
       VSub(
         VAdd(
           VSub(MatVec(MatNeg(o.k_R_), e_R), MatVec(o.k_omega_, e_omega)),
           Cross(o.omega_mv_, MatVec(adjustedInertia, o.omega_mv_))),
         MatVec(adjustedInertia,
                VSub(MatVec(MatMul(MatMul(omega_mv_skew, Transpose(o.R_mv_)),
                                   R_d),
                            o.omega_d_),
                     MatVec(MatMul(Transpose(o.R_mv_), R_d), o.alpha_d_)))),
       additionalDynamics)

\* SaturateMoment without the three saturations
SaturateMomentNone(M) == M

\* the three saturations at the end of attitudeTracking
SaturateMoment(M) ==
  With(M, LAMBDA x :
    << saturation(x[1], FInt(-5), FInt(5)),
       saturation(x[2], FInt(-5), FInt(5)),
       saturation(x[3], Fin(-250), Fin(250)) >>)

\* result: thrown ("mode", "nan" or "none"), the object with R_d_ and the
\* status fields updated, and the control moment M_u
attitudeTracking(o, b1_desired, b3_desired) ==
  IF o.current_control_mode_ # POSITION_CONTROL
       /\ o.current_control_mode_ # ATTITUDE_CONTROL
  THEN [ thrown |-> "mode", o |-> o, M_u |-> ZeroVec3 ]
  ELSE
    With(DesiredRotation(o, b1_desired, b3_desired), LAMBDA R_d :
    With(IF o.current_control_mode_ = POSITION_CONTROL
         THEN [o.status_msg_ EXCEPT !.b1_d = Col(R_d, 1)]
         ELSE o.status_msg_, LAMBDA st :
    With(AttitudeError(o, R_d), LAMBDA e_R :
    With(AngularVelocityError(o, R_d), LAMBDA e_omega :
      IF AngularVelocityErrorFault(e_omega)
      THEN [ thrown |-> "nan",
             o |-> [o EXCEPT !.R_d_ = R_d, !.status_msg_ = st],
             M_u |-> ZeroVec3 ]
      ELSE [ thrown |-> "none",
             o |-> [ o EXCEPT
                       !.R_d_ = R_d,
                       !.status_msg_ =
                          [st EXCEPT !.e_R = e_R, !.e_omega = e_omega] ],
             M_u |-> SaturateMoment(
                       ControlMoment(o, R_d, e_R, e_omega,
                                     calculateAdjustedInertia(o))) ]))))

\* EstimatorRuns waiting for a desired rotation to exist
EstimatorRunsOnceSet(o) ==
  o.calc_desired_flag_ /\ o.current_control_mode_ = POSITION_CONTROL
    /\ o.R_d_ # ZeroMat3

\* the guard at the top of calculateDesiredAngularVelAndAcc
EstimatorRuns(o) ==
  o.calc_desired_flag_ /\ o.current_control_mode_ = POSITION_CONTROL

calculateDesiredAngularVelAndAcc(o, t_d) ==
  IF ~EstimatorRuns(o) THEN o
  ELSE
    With(MatDivS(MatSub(o.R_d_, o.R_c_old_), t_d), LAMBDA R_c_dot :
    With(MatMul(Transpose(o.R_d_), R_c_dot), LAMBDA omega_c_skew :
    With(MatDivS(MatSub(R_c_dot, o.R_c_dot_old_), t_d), LAMBDA R_c_ddot :
    With(veeOperator(MatAdd(MatMul(MatNeg(omega_c_skew), omega_c_skew),
                            MatMul(Transpose(o.R_d_), R_c_ddot))),
         LAMBDA alpha :
      [ o EXCEPT
          !.omega_d_ = veeOperator(omega_c_skew),
          !.alpha_d_ = << saturation(alpha[1], Fin(-50), Fin(50)),
                          saturation(alpha[2], Fin(-50), Fin(50)),
                          saturation(alpha[3], Fin(-50), Fin(50)) >>,
          !.R_c_old_ = o.R_d_,
          !.R_c_dot_old_ = R_c_dot,
          !.calc_desired_flag_ = FALSE ]))))

\* Eigen's array().sign()
FSignum(a) == IF a.k = "nan" THEN NaN ELSE FInt(FSgn(a))

\* RotorCommand without the multiplication by rotor_signs
RotorCommandUnsigned(v) ==
  saturation(FSqrt(FDiv(FAbs(v), Fin(MOTOR_CONSTANT))),
             FNeg(Fin(MAX_ROTOR_VELOCITY)), Fin(MAX_ROTOR_VELOCITY))

\* one component of calculateRotorVelocities, from the allocator output v
RotorCommand(v) ==
  FMul(FSignum(v),
       saturation(FSqrt(FDiv(FAbs(v), Fin(MOTOR_CONSTANT))),
                  FNeg(Fin(MAX_ROTOR_VELOCITY)), Fin(MAX_ROTOR_VELOCITY)))

\* the allocator output of calculateRotorVelocities
AllocatorOutput(thrust_moment_vec, transform_matrix) ==
  MatVec(transform_matrix, thrust_moment_vec)

RotorCommands(v) ==
  With(v, LAMBDA x :
    << RotorCommand(x[1]), RotorCommand(x[2]),
       RotorCommand(x[3]), RotorCommand(x[4]) >>)

calculateRotorVelocities(thrust_moment_vec, transform_matrix) ==
  RotorCommands(AllocatorOutput(thrust_moment_vec, transform_matrix))

\* TransformOf without the test of the variants
TransformOfFull(o) == THRUST_TRANSFORM_FULL

\* the allocation matrix publishControlInputs hands to calculateRotorVelocities
TransformOf(o) ==
  IF VariantActive(o) THEN THRUST_TRANSFORM_YAW ELSE THRUST_TRANSFORM_FULL

\* LateralOffset without the saturation
LateralOffsetUnsaturated(o, moment, force, limit) ==
  FDiv(moment, FMul(FMul(FInt(2), force), Dot(E3, MatVec(o.R_mv_, E3))))

\* dx (from the pitch moment) and dy (from the roll moment) of
\* publishControlInputs, for a variant with the given force and travel
LateralOffset(o, moment, force, limit) ==
  saturation(
    FDiv(moment, FMul(FMul(FInt(2), force), Dot(E3, MatVec(o.R_mv_, E3)))),
    FNeg(limit), limit)

\* AuxiliaryCommands without the Manipulator branch
AuxiliaryCommandsMassOnly(o, M_u) ==
  IF o.enable_mass_control_
  THEN With(LateralOffset(o, M_u[2], Fin(MM_FORCE), HalfArm), LAMBDA dx :
       With(LateralOffset(o, M_u[1], Fin(MM_FORCE), HalfArm), LAMBDA dy :
         << [topic |-> "movable_mass_0/command", data |-> <<dx>>],
            [topic |-> "movable_mass_1/command", data |-> <<FNeg(dy)>>],
            [topic |-> "movable_mass_2/command", data |-> <<FNeg(dx)>>],
            [topic |-> "movable_mass_3/command", data |-> <<dy>>] >>))
  ELSE << >>

\* the mass or payload commands publishControlInputs publishes, in order
AuxiliaryCommands(o, M_u) ==
  IF o.enable_mass_control_
  THEN With(LateralOffset(o, M_u[2], Fin(MM_FORCE), HalfArm), LAMBDA dx :
       With(LateralOffset(o, M_u[1], Fin(MM_FORCE), HalfArm), LAMBDA dy :
         << [topic |-> "movable_mass_0/command", data |-> <<dx>>],
            [topic |-> "movable_mass_1/command", data |-> <<FNeg(dy)>>],
            [topic |-> "movable_mass_2/command", data |-> <<FNeg(dx)>>],
            [topic |-> "movable_mass_3/command", data |-> <<dy>>] >>))
  ELSE IF o.enable_manipulator_control_
  THEN << [topic |-> "payload_position",
           data |-> << LateralOffset(o, M_u[2], Fin(PAYLOAD_FORCE), Fin(15)),
                       FNeg(LateralOffset(o, M_u[1], Fin(PAYLOAD_FORCE),
                                          Fin(15))) >>] >>
  ELSE << >>

\* result: the messages published, in order, and the rotor velocities
publishControlInputs(o, f_u, M_u) ==
  With(calculateRotorVelocities(<<f_u, M_u[1], M_u[2], M_u[3]>>, TransformOf(o)),
       LAMBDA rotor_velocities :
    [ pubs |-> AuxiliaryCommands(o, M_u)
                 \o << [topic |-> "motor_speed", data |-> rotor_velocities] >>,
      rotor_velocities |-> rotor_velocities ])

\* the GeomCtlStatus message published on uav_status
publishStatusMessage(o, f_u, M_u) ==
  With(MatSub(EYE3, MatMul(Transpose(o.R_d_), o.R_mv_)), LAMBDA att_err :
  With(VSub(o.x_d_, o.x_mv_), LAMBDA d :
    [ topic |-> "uav_status",
      data |->
        << f_u, M_u[1], M_u[2], M_u[3],
           FDiv(FAdd(FAdd(att_err[1][1], att_err[2][2]), att_err[3][3]), FInt(2)),
           FSqrt(Dot(d, d)) >>,
      euler_mv |-> o.euler_mv_, euler_sp |-> o.euler_d_,
      x_mv |-> o.x_mv_, x_sp |-> o.x_d_, a_d |-> o.a_d_, v_d |-> o.v_d_,
      b1_mv |-> Col(o.R_mv_, 1),
      omega_d |-> o.omega_d_, alpha_d |-> o.alpha_d_, omega_mv |-> o.omega_mv_,
      mass_offset |-> IF o.enable_mass_control_
                      THEN <<o.mass0_mv_, o.mass1_mv_, o.mass2_mv_, o.mass3_mv_>>
                      ELSE <<Zero, Zero, Zero, Zero>>,
      r_cm |-> o.ro_cm_,
      status |-> o.status_msg_ ]))

(***************************************************************************)
(* runControllerLoop(): the body of one loop iteration past the period     *)
(* gate.  dt is the elapsed time in clock units.                           *)
(***************************************************************************)
desiredTimeInterval == FDiv(One, FInt(DISCRETIZATION_RATE))

\* PeriodGateSkips with the comparison left out: every iteration is a tick
PeriodGateOpen(o, dt) == FALSE

\* dt < 1.0 / controller_rate_
PeriodGateSkips(o, dt) == dt * o.controller_rate_ < CLOCK_HZ

\* SubRateDue without the comparison: the estimator is called in every tick
SubRateDueAlways(counter) == TRUE

\* desiredCounter >= desiredTimeInterval
SubRateDue(counter) == counter * DISCRETIZATION_RATE >= CLOCK_HZ

\* the sub-rate block: the estimator, when the accumulator is due
SubRateStep(o, counter) ==
  IF SubRateDue(counter)
  THEN calculateDesiredAngularVelAndAcc(
         [o EXCEPT !.calc_desired_flag_ = TRUE], desiredTimeInterval)
  ELSE o

\* b1_des = b1_old + 0.05 * (b1_d_ - b1_old)
HeadingPrefilter(b1_old_, b1_d) ==
  VAdd(b1_old_, VScale(Fin(5), VSub(b1_d, b1_old_)))

\* the two publish calls that end a tick, on the trackers' outputs
PublishStep(o, b1_des, counter, f_u, M_u) ==
  With(publishControlInputs(o, f_u, M_u), LAMBDA ci :
  With([o EXCEPT !.status_msg_.rotor_velocities = ci.rotor_velocities],
       LAMBDA o4 :
    [ o |-> o4, b1_old |-> b1_des, counter |-> counter, thrown |-> "none",
      pubs |-> ci.pubs \o << publishStatusMessage(o4, f_u, M_u) >> ]))

\* result: the object, the loop's locals, what was published, and whether
\* an exception left the loop ("none", "mode" or "nan")
ControlTick(o, b1_old_, counter, dt) ==
  With(IF SubRateDue(counter + dt) THEN 0 ELSE counter + dt, LAMBDA c2 :
  With(SubRateStep(o, counter + dt), LAMBDA o1 :
  With([o1 EXCEPT !.ro_cm_ = calculateCenterOfMass(o1)], LAMBDA o2 :
  With(HeadingPrefilter(b1_old_, o2.b1_d_), LAMBDA b1_des :
  With(trajectoryTracking(o2, o2.x_d_), LAMBDA tt :
    IF tt.thrown
    THEN [ o |-> o2, b1_old |-> b1_old_, counter |-> c2,
           thrown |-> "mode", pubs |-> << >> ]
    ELSE
      With(attitudeTracking(
             [o2 EXCEPT !.status_msg_.e_x = tt.e_x, !.status_msg_.e_v = tt.e_v],
             b1_des, tt.b3_d), LAMBDA at :
        IF at.thrown # "none"
        THEN [ o |-> at.o, b1_old |-> b1_des, counter |-> c2,
               thrown |-> at.thrown, pubs |-> << >> ]
        ELSE PublishStep(at.o, b1_des, c2, tt.f_u, at.M_u)))))))

(***************************************************************************)
(* The process: main(), the startup waits and the control loop, with the   *)
(* environment (clock, shutdown request, message arrival).  Callbacks run  *)
(* only inside ros::spinOnce(), so the messages that have arrived since    *)
(* the last spinOnce() are an input of the step that spins: a batch, at    *)
(* most one message per channel (every subscription has queue size 1), in  *)
(* arrival order.  The clock is observed only by ros::Time::now(), so the  *)
(* time that has passed since the last reading is an input of the step     *)
(* that reads it.                                                          *)
(***************************************************************************)
VARIABLES
  opts,            \* the node parameters mass_ctl and manipulator_ctl
  obj,             \* the UavGeometryControl object
  pc,              \* where main() / runControllerLoop() stands
  ok,              \* ros::ok()
  now,             \* ros::Time::now() as last read, in clock units
  t_old,           \* runControllerLoop's t_old
  b1_old,          \* runControllerLoop's b1_old
  desiredCounter,  \* runControllerLoop's desiredCounter, in clock units
  nmsg,            \* messages dispatched so far
  pub,             \* what the last step handed to publish(), in order
  calls,           \* the variant switches called on the object so far
  arg,             \* the input of a function applied on its own
  res,             \* its result
  inbox            \* messages waiting in the subscription queues, oldest first

vars == << opts, obj, pc, ok, now, t_old, b1_old, desiredCounter, nmsg, pub,
           calls, arg, res, inbox >>

\* the variables the node itself never touches
fnvars == << arg, res, inbox >>

\* bounds of the model
MaxTime == 4
MaxMsgs == 4
MaxBatch == 1
MaxStep == 2

\* values an unassigned double member may hold
UninitDoubles == {Zero, Fin(10)}

\* quaternions <<w, x, y, z>> (components as in QTwice): level, and rolled
\* half a turn (upside down)
QuatLevel == <<2, 0, 0, 0>>
QuatRolled == <<0, 2, 0, 0>>

ImuMsgs ==
  { [ch |-> "imu", orientation |-> QuatLevel, angular_velocity |-> ZeroVec3],
    [ch |-> "imu", orientation |-> QuatRolled, angular_velocity |-> IntVec(0, 1, 0)],
    [ch |-> "imu", orientation |-> QuatLevel,
     angular_velocity |-> <<Inf(1), Zero, Zero>>] }
PoseMsgs == { [ch |-> "pose", position |-> ZeroVec3] }
VelMsgs == { [ch |-> "velocity_relative", linear |-> ZeroVec3] }
SetpointMsgs == { [ch |-> "x_desired", vec |-> IntVec(0, 0, 2)] }
ModeMsgs ==
  { [ch |-> "control_mode", data |-> m] :
      m \in {ATTITUDE_CONTROL, VELOCITY_CONTROL, 99} }
GainConfig ==
  [ kx_xy |-> FInt(8), kx_z |-> FInt(40), kv_xy |-> FInt(3), kv_z |-> FInt(15),
    kR_xy |-> FInt(2), kR_z |-> FInt(10), kOm_xy |-> FInt(1), kOm_z |-> FInt(2) ]
ParamMsgs == { [ch |-> "reconfigure", config |-> GainConfig] }

Msgs == ImuMsgs \cup PoseMsgs \cup VelMsgs \cup SetpointMsgs \cup ModeMsgs
          \cup ParamMsgs

\* whether the node subscribes to the channel
Subscribed(o, ch) ==
  CASE ch \in {"movable_mass_0/state", "movable_mass_1/state",
               "movable_mass_2/state", "movable_mass_3/state"} -> o.mass_subscribed_
    [] ch \in {"left_gripper_pos", "right_gripper_pos"} -> o.gripper_subscribed_
    [] OTHER -> TRUE

\* the callback bound to a channel by initializeSubsPubs() and the enable calls
Callback(o, msg) ==
  CASE msg.ch = "imu" -> imu_cb(o, msg)
    [] msg.ch = "pose" -> pose_cb(o, msg)
    [] msg.ch = "velocity_relative" -> vel_cb(o, msg)
    [] msg.ch = "x_desired" -> xd_cb(o, msg)
    [] msg.ch = "v_desired" -> vd_cb(o, msg)
    [] msg.ch = "a_desired" -> ad_cb(o, msg)
    [] msg.ch = "b1_desired" -> b1d_cb(o, msg)
    [] msg.ch = "omega_desired" -> omegad_cb(o, msg)
    [] msg.ch = "alpha_desired" -> alphad_cb(o, msg)
    [] msg.ch = "R_desired" -> rd_cb(o, msg)
    [] msg.ch = "euler_desired" -> euler_cb(o, msg)
    [] msg.ch = "control_mode" -> ctl_mode_cb(o, msg)
    [] msg.ch = "reconfigure" -> param_cb(o, msg)
    [] msg.ch = "movable_mass_0/state" -> mass0_cb(o, msg)
    [] msg.ch = "movable_mass_1/state" -> mass1_cb(o, msg)
    [] msg.ch = "movable_mass_2/state" -> mass2_cb(o, msg)
    [] msg.ch = "movable_mass_3/state" -> mass3_cb(o, msg)
    [] msg.ch = "left_gripper_pos" -> gripperLeft_cb(o, msg)
    [] msg.ch = "right_gripper_pos" -> gripperRight_cb(o, msg)

RECURSIVE SpinFrom(_, _, _)
SpinFrom(o, q, i) ==
  IF i > Len(q) THEN o ELSE SpinFrom(Callback(o, q[i]), q, i + 1)

\* ros::spinOnce(): every queued callback, in arrival order
spinOnce(o, q) == SpinFrom(o, q, 1)

\* the batches of at most n messages drawn from M, one per channel
RECURSIVE BatchesOf(_, _)
BatchesOf(M, n) ==
  IF n = 0 THEN { << >> }
  ELSE LET prev == BatchesOf(M, n - 1)
       IN prev \cup
          { Append(b, m) : <<b, m>> \in
              { x \in prev \X M : \A i \in 1..Len(x[1]) : x[1][i].ch # x[2].ch } }

\* the batches that may have arrived at a spinOnce() of object o after n messages
Arrivals(M, o, n) ==
  { b \in BatchesOf(M, MaxBatch) :
      /\ n + Len(b) <= MaxMsgs
      /\ \A i \in 1..Len(b) : Subscribed(o, b[i].ch) }

\* the values ros::Time::now() may return after it returned t
ClockReadings(t) == { u \in t..(t + MaxStep) : u <= MaxTime }

Init ==
  /\ opts \in [mass_ctl : BOOLEAN, manipulator_ctl : BOOLEAN]
  /\ \E manip \in BOOLEAN, u \in UninitDoubles :
       /\ (opts.mass_ctl \/ opts.manipulator_ctl) => ~manip
       /\ ~(opts.mass_ctl \/ opts.manipulator_ctl \/ manip) => u = Zero
       /\ obj = Constructor(RATE, manip, u, u)
  /\ pc = "main"
  /\ ok = TRUE
  /\ now = 0
  /\ t_old = 0
  /\ b1_old = ZeroVec3
  /\ desiredCounter = 0
  /\ nmsg = 0
  /\ pub = << >>
  /\ calls = << >>
  /\ arg = << >>
  /\ res = << >>
  /\ inbox = << >>

\* main(): the variant switches the node parameters ask for
StartupOptions(o, p) ==
  With(IF p.mass_ctl THEN enableMassControl(o) ELSE o, LAMBDA o1 :
    IF p.manipulator_ctl THEN enableManipulatorControl(o1) ELSE o1)

StartupCalls(p) ==
  (IF p.mass_ctl THEN << "enableMassControl" >> ELSE << >>)
    \o (IF p.manipulator_ctl THEN << "enableManipulatorControl" >> ELSE << >>)

\* main(), then the first lines of runControllerLoop()
Main ==
  /\ pc = "main"
  /\ obj' = StartupOptions(obj, opts)
  /\ calls' = calls \o StartupCalls(opts)
  /\ b1_old' = obj'.b1_d_
  /\ \E t \in ClockReadings(now) : now' = t /\ t_old' = t
  /\ pc' = "waitClock"
  /\ pub' = << >>
  /\ UNCHANGED << opts, ok, desiredCounter, nmsg, fnvars >>

\* the loop conditions of blockingSensorChecks()
ClockWaits(t, alive) == t = 0 /\ alive
ImuWaits(o, alive) == ~o.imu_start_flag_ /\ alive

\* PoseWaits with the test of the pose flag left out
PoseWaitsAlways(o, alive) == alive

PoseWaits(o, alive) == ~o.pose_start_flag_ /\ alive
\* VelocityWaits with the test of the velocity flag left out
VelocityWaitsNever(o, alive) == FALSE
VelocityWaits(o, alive) == ~o.velocity_start_flag_ /\ alive

\* one pass of a wait loop: spin while the condition holds, else go on
WaitStep(here, waits, next, q) ==
  /\ pc = here
  /\ IF waits
     THEN /\ obj' = spinOnce(obj, q)
          /\ nmsg' = nmsg + Len(q)
          /\ pc' = here
     ELSE /\ q = << >>
          /\ pc' = next
          /\ UNCHANGED << obj, nmsg >>
  /\ pub' = << >>

WaitClock(q) ==
  /\ \E t \in ClockReadings(now) :
       /\ now' = t
       /\ WaitStep("waitClock", ClockWaits(t, ok), "waitImu", q)
  /\ UNCHANGED << opts, ok, t_old, b1_old, desiredCounter, calls, fnvars >>

WaitImu(q) ==
  /\ WaitStep("waitImu", ImuWaits(obj, ok), "waitPose", q)
  /\ UNCHANGED << opts, ok, now, t_old, b1_old, desiredCounter, calls, fnvars >>

WaitPose(q) ==
  /\ WaitStep("waitPose", PoseWaits(obj, ok), "waitVelocity", q)
  /\ UNCHANGED << opts, ok, now, t_old, b1_old, desiredCounter, calls, fnvars >>

\* the last wait, then sleep(5) and the loop's helper variables
WaitVelocity(q) ==
  /\ WaitStep("waitVelocity", VelocityWaits(obj, ok), "loopHead", q)
  /\ desiredCounter' = 0
  /\ UNCHANGED << opts, ok, now, t_old, b1_old, calls, fnvars >>

\* LoopContinues without the test of ros::ok()
LoopContinuesAlways(alive) == TRUE

\* while (ros::ok())
LoopContinues(alive) == alive

LoopHead ==
  /\ pc = "loopHead"
  /\ pc' = IF LoopContinues(ok) THEN "loopBody" ELSE "done"
  /\ pub' = << >>
  /\ UNCHANGED << opts, obj, ok, now, t_old, b1_old, desiredCounter, nmsg,
                  calls, fnvars >>

\* one iteration: spinOnce, the period gate, and the tick
LoopBody(q) ==
  /\ pc = "loopBody"
  /\ \E t \in ClockReadings(now), o1 \in {spinOnce(obj, q)} :
       /\ now' = t
       /\ IF PeriodGateSkips(o1, t - t_old)
          THEN /\ obj' = o1
               /\ pc' = "loopHead"
               /\ pub' = << >>
               /\ UNCHANGED << t_old, b1_old, desiredCounter >>
          ELSE \E r \in {ControlTick(o1, b1_old, desiredCounter, t - t_old)} :
               /\ obj' = r.o
               /\ b1_old' = r.b1_old
               /\ desiredCounter' = r.counter
               /\ t_old' = t
               /\ pc' = IF r.thrown = "none" THEN "loopHead" ELSE "fatal"
               /\ pub' = r.pubs
  /\ nmsg' = nmsg + Len(q)
  /\ UNCHANGED << opts, ok, calls, fnvars >>

Running == pc \notin {"done", "fatal"}

\* the environment: shutdown is requested
Shutdown ==
  /\ Running
  /\ ok
  /\ ok' = FALSE
  /\ pub' = << >>
  /\ UNCHANGED << opts, obj, pc, now, t_old, b1_old, desiredCounter, nmsg,
                  calls, fnvars >>

\* the steps of the program, with message arrivals drawn from M
Program(M) ==
  \/ Main
  \/ \E q \in Arrivals(M, obj, nmsg) : WaitClock(q)
  \/ \E q \in Arrivals(M, obj, nmsg) : WaitImu(q)
  \/ \E q \in Arrivals(M, obj, nmsg) : WaitPose(q)
  \/ \E q \in Arrivals(M, obj, nmsg) : WaitVelocity(q)
  \/ LoopHead
  \/ \E q \in Arrivals(M, obj, nmsg) : LoopBody(q)

Next == Program(Msgs) \/ Shutdown

Spec == Init /\ [][Next]_vars

(***************************************************************************)
(* The same process under the scheduling the code has: main() is a         *)
(* sequential program, so a step of it that can be taken is taken.  The    *)
(* environment sends sensor samples only.                                  *)
(***************************************************************************)
SensorMsgs == ImuMsgs \cup PoseMsgs \cup VelMsgs

NextLive == Program(SensorMsgs) \/ Shutdown

SpecLive == Init /\ [][NextLive]_vars /\ WF_vars(Program(SensorMsgs))

(***************************************************************************)
(* The object's entry points applied on their own, outside the node's      *)
(* loop: the variant switches and the reconfigure callback called in any   *)
(* order on a freshly constructed object.  calls records the calls made,   *)
(* arg the configuration last handed to param_cb.                          *)
(***************************************************************************)
MaxCalls == 3

nodevars == << opts, ok, now, t_old, b1_old, desiredCounter, nmsg, pub, inbox >>

\* the node's own variables while a function is applied on its own
NodeAtRest ==
  /\ opts = [mass_ctl |-> FALSE, manipulator_ctl |-> FALSE]
  /\ ok = TRUE
  /\ now = 0
  /\ t_old = 0
  /\ b1_old = ZeroVec3
  /\ desiredCounter = 0
  /\ nmsg = 0
  /\ pub = << >>
  /\ inbox = << >>

GainConfigs ==
  { GainConfig, [GainConfig EXCEPT !.kx_xy = FInt(5), !.kOm_z = FInt(3)] }

InitApi ==
  /\ NodeAtRest
  /\ \E manip \in BOOLEAN, u \in UninitDoubles : obj = Constructor(RATE, manip, u, u)
  /\ pc = "api"
  /\ calls = << >>
  /\ arg = << >>
  /\ res = << >>

ApiCall(name, after) ==
  /\ pc = "api"
  /\ Len(calls) < MaxCalls
  /\ obj' = after
  /\ calls' = Append(calls, name)
  /\ UNCHANGED << pc, nodevars, res >>

CallEnableMassControl ==
  ApiCall("enableMassControl", enableMassControl(obj)) /\ UNCHANGED arg

CallDisableMassControl ==
  ApiCall("disableMassControl", disableMassControl(obj)) /\ UNCHANGED arg

CallEnableManipulatorControl ==
  ApiCall("enableManipulatorControl", enableManipulatorControl(obj))
    /\ UNCHANGED arg

CallDisableManipulatorControl ==
  ApiCall("disableManipulatorControl", disableManipulatorControl(obj))
    /\ UNCHANGED arg

\* the reconfigure server hands param_cb the configuration c
ApplyParams(c) ==
  ApiCall("param_cb", param_cb(obj, [ch |-> "reconfigure", config |-> c]))
    /\ arg' = c

NextApi ==
  \/ CallEnableMassControl
  \/ CallDisableMassControl
  \/ CallEnableManipulatorControl
  \/ CallDisableManipulatorControl
  \/ \E c \in GainConfigs : ApplyParams(c)

SpecApi == InitApi /\ [][NextApi]_vars

(***************************************************************************)
(* calculateRotorVelocities applied on its own: arg is the thrust/moment   *)
(* vector and the allocation matrix, res the rotor velocities.             *)
(***************************************************************************)
\* thrust values (1/SCALE N, and the two infinities) and moment values
ForceGrid ==
  { Fin(f) : f \in {-9000, -400, 0, 4, 2040, 9000} } \cup { Inf(1), Inf(-1) }
RollPitchGrid == { Fin(m) : m \in {-500, 0, 500} }
YawGrid == { Fin(m) : m \in {-250, 0, 250} }

AllocationInputs ==
  { [ vec |-> <<f, m1, m2, m3>>, transform |-> T ] :
      f \in ForceGrid, m1 \in RollPitchGrid, m2 \in RollPitchGrid,
      m3 \in YawGrid, T \in {THRUST_TRANSFORM_FULL, THRUST_TRANSFORM_YAW} }

InitAlloc ==
  /\ NodeAtRest
  /\ obj = Constructor(RATE, FALSE, Zero, Zero)
  /\ pc = "call"
  /\ calls = << >>
  /\ arg \in AllocationInputs
  /\ res = << >>

Allocate ==
  /\ pc = "call"
  /\ res' = calculateRotorVelocities(arg.vec, arg.transform)
  /\ pc' = "returned"
  /\ UNCHANGED << obj, nodevars, calls, arg >>

NextAlloc == Allocate

SpecAlloc == InitAlloc /\ [][NextAlloc]_vars

(***************************************************************************)
(* One tick run twice from the same state, on the same messages except     *)
(* that the second run also receives one message on a desired-rotation,    *)
(* desired-Euler, desired-angular-velocity or desired-angular-acceleration *)
(* channel (extra).  res holds what each run published.                    *)
(***************************************************************************)
ExtraMsgs ==
  { [ch |-> "omega_desired", vec |-> IntVec(0, 0, 1)],
    [ch |-> "alpha_desired", vec |-> IntVec(0, 0, 1)],
    [ch |-> "R_desired", data |-> euler2RotationMatrix(0, 0, 1)],
    [ch |-> "euler_desired", angles |-> <<0, 0, 1>>] }

\* the object once main() has applied the options p and the startup waits
\* have seen the sample imu and a pose and a velocity sample
StartedObject(p, imu, pose, vel) ==
  spinOnce(StartupOptions(Constructor(RATE, FALSE, Zero, Zero), p),
           << imu, pose, vel >>)

FiniteImuMsgs == { m \in ImuMsgs : IsFinVec(m.angular_velocity) }

TwoRunInputs ==
  { [ o |-> StartedObject(p, imu, pose, vel), q |-> q, extra |-> x,
      counter |-> c ] :
      p \in [mass_ctl : BOOLEAN, manipulator_ctl : BOOLEAN],
      imu \in FiniteImuMsgs, pose \in PoseMsgs, vel \in VelMsgs,
      q \in BatchesOf(SetpointMsgs, 1), x \in ExtraMsgs,
      c \in {0, CLOCK_HZ \div RATE} }

InitNI ==
  /\ NodeAtRest
  /\ obj = Constructor(RATE, FALSE, Zero, Zero)
  /\ pc = "call"
  /\ calls = << >>
  /\ arg \in TwoRunInputs
  /\ res = << >>

\* what the first tick after the messages q publishes (spinOnce, then the
\* tick, one controller period after the last one)
TickOutputs(o, q, counter) ==
  ControlTick(spinOnce(o, q), o.b1_d_, counter, CLOCK_HZ \div RATE).pubs

RunBoth ==
  /\ pc = "call"
  /\ res' = [ low |-> TickOutputs(arg.o, arg.q, arg.counter),
              high |-> TickOutputs(arg.o, arg.q \o << arg.extra >>,
                                   arg.counter) ]
  /\ pc' = "returned"
  /\ UNCHANGED << obj, nodevars, calls, arg >>

NextNI == RunBoth

SpecNI == InitNI /\ [][NextNI]_vars

(***************************************************************************)
(* The gated part of a loop iteration taken statement by statement, from   *)
(* the objects the loop can hold after its spinOnce().  pc is the          *)
(* statement to run next, res holds the locals b1_des, f_u, b3_d and M_u   *)
(* (declared without a value and written before they are read), arg the    *)
(* state the tick started from, calls the statements run so far, pub what  *)
(* the tick has published so far, inbox the messages that arrived since    *)
(* the last spinOnce().                                                    *)
(***************************************************************************)
MaxTickTime == 5

TickObjects ==
  { spinOnce(StartedObject(p, imu, pose, vel), q) :
      p \in [mass_ctl : BOOLEAN, manipulator_ctl : BOOLEAN],
      imu \in ImuMsgs, pose \in PoseMsgs, vel \in VelMsgs,
      q \in BatchesOf(SetpointMsgs \cup ModeMsgs, 1) }

\* the elapsed times that pass the period gate
GatedIntervals(o) == { dt \in 1..MaxStep + 1 : ~PeriodGateSkips(o, dt) }

TickStart(o, b1, counter, dt) ==
  [ o |-> o, b1_old |-> b1, counter |-> counter, dt |-> dt ]

\* the loop at the first statement after the period gate, holding an object
\* of Objects
TickFrom(Objects) ==
  /\ opts = [mass_ctl |-> FALSE, manipulator_ctl |-> FALSE]
  /\ ok = TRUE
  /\ nmsg = 0
  /\ obj \in Objects
  /\ b1_old = obj.b1_d_
  /\ desiredCounter \in {0, CLOCK_HZ \div RATE}
  /\ t_old = 0
  /\ now \in GatedIntervals(obj)
  /\ pc = "subRate"
  /\ pub = << >>
  /\ calls = << >>
  /\ arg = TickStart(obj, b1_old, desiredCounter, now - t_old)
  /\ res = [ b1_des |-> ZeroVec3, f_u |-> Zero, b3_d |-> ZeroVec3,
             M_u |-> ZeroVec3, thrown |-> "none" ]
  /\ inbox = << >>

InitSteps == TickFrom(TickObjects)

\* PositionAfter with trajectory tracking and attitude tracking exchanged
PositionAfterSwapped(here) ==
  CASE here = "subRate" -> "centerOfMass"
    [] here = "centerOfMass" -> "prefilter"
    [] here = "prefilter" -> "attitude"
    [] here = "attitude" -> "trajectory"
    [] here = "trajectory" -> "control"
    [] here = "control" -> "status"
    [] here = "status" -> "ticked"

\* the statement that follows a statement of the tick
PositionAfter(here) ==
  CASE here = "subRate" -> "centerOfMass"
    [] here = "centerOfMass" -> "prefilter"
    [] here = "prefilter" -> "trajectory"
    [] here = "trajectory" -> "attitude"
    [] here = "attitude" -> "control"
    [] here = "control" -> "status"
    [] here = "status" -> "ticked"

\* desiredCounter += dt, the sub-rate block, t_old = now
StepSubRate ==
  /\ pc = "subRate"
  /\ \E c \in {desiredCounter + (now - t_old)} :
       /\ obj' = SubRateStep(obj, c)
       /\ desiredCounter' = IF SubRateDue(c) THEN 0 ELSE c
       /\ calls' = calls \o << "accumulator" >>
                     \o (IF SubRateDue(c) THEN << "estimator" >> ELSE << >>)
  /\ t_old' = now
  /\ pc' = PositionAfter("subRate")
  /\ UNCHANGED << opts, ok, now, b1_old, nmsg, pub, arg, res, inbox >>

StepCenterOfMass ==
  /\ pc = "centerOfMass"
  /\ obj' = [obj EXCEPT !.ro_cm_ = calculateCenterOfMass(obj)]
  /\ calls' = Append(calls, "centerOfMass")
  /\ pc' = PositionAfter("centerOfMass")
  /\ UNCHANGED << opts, ok, now, t_old, b1_old, desiredCounter, nmsg, pub, arg,
                  res, inbox >>

StepPrefilter ==
  /\ pc = "prefilter"
  /\ res' = [res EXCEPT !.b1_des = HeadingPrefilter(b1_old, obj.b1_d_)]
  /\ calls' = Append(calls, "prefilter")
  /\ pc' = PositionAfter("prefilter")
  /\ UNCHANGED << opts, obj, ok, now, t_old, b1_old, desiredCounter, nmsg, pub,
                  arg, inbox >>

\* trajectoryTracking, then b1_old = b1_des
StepTrajectory ==
  /\ pc = "trajectory"
  /\ calls' = Append(calls, "trajectory")
  /\ \E tt \in {trajectoryTracking(obj, obj.x_d_)} :
       IF tt.thrown
       THEN /\ pc' = "fatal"
            /\ res' = [res EXCEPT !.thrown = "mode"]
            /\ UNCHANGED << obj, b1_old >>
       ELSE /\ pc' = PositionAfter("trajectory")
            /\ obj' = [obj EXCEPT !.status_msg_.e_x = tt.e_x,
                                  !.status_msg_.e_v = tt.e_v]
            /\ res' = [res EXCEPT !.f_u = tt.f_u, !.b3_d = tt.b3_d]
            /\ b1_old' = res.b1_des
  /\ UNCHANGED << opts, ok, now, t_old, desiredCounter, nmsg, pub, arg, inbox >>

StepAttitude ==
  /\ pc = "attitude"
  /\ calls' = Append(calls, "attitude")
  /\ \E at \in {attitudeTracking(obj, res.b1_des, res.b3_d)} :
       /\ obj' = at.o
       /\ res' = [res EXCEPT !.M_u = at.M_u, !.thrown = at.thrown]
       /\ pc' = IF at.thrown = "none" THEN PositionAfter("attitude") ELSE "fatal"
  /\ UNCHANGED << opts, ok, now, t_old, b1_old, desiredCounter, nmsg, pub, arg, inbox >>

\* publishControlInputs: the allocation, then the commands
StepPublishControl ==
  /\ pc = "control"
  /\ calls' = calls \o << "allocation", "commands" >>
  /\ \E ci \in {publishControlInputs(obj, res.f_u, res.M_u)} :
       /\ pub' = pub \o ci.pubs
       /\ obj' = [obj EXCEPT !.status_msg_.rotor_velocities = ci.rotor_velocities]
  /\ pc' = PositionAfter("control")
  /\ UNCHANGED << opts, ok, now, t_old, b1_old, desiredCounter, nmsg, arg, res, inbox >>

StepPublishStatus ==
  /\ pc = "status"
  /\ calls' = Append(calls, "status")
  /\ pub' = Append(pub, publishStatusMessage(obj, res.f_u, res.M_u))
  /\ pc' = PositionAfter("status")
  /\ UNCHANGED << opts, obj, ok, now, t_old, b1_old, desiredCounter, nmsg, arg,
                  res, inbox >>

\* the setpoint and mode messages that may arrive while the loop runs
StepMsgs == SetpointMsgs \cup ModeMsgs

\* subscribe(topic, 1, ...): a queue of one message per topic, the newest
Enqueue(q, m) == Append(SelectSeq(q, LAMBDA e : e.ch # m.ch), m)

\* a publisher elsewhere sends a message: it waits in the subscription queue
Arrive ==
  /\ pc # "fatal"
  /\ \E m \in StepMsgs : inbox' = Enqueue(inbox, m)
  /\ inbox' # inbox
  /\ UNCHANGED << opts, obj, pc, ok, now, t_old, b1_old, desiredCounter, nmsg,
                  pub, calls, arg, res >>

\* SpinsAt with a dispatch before every statement
SpinsAnywhere(here) == here # "fatal"

\* the positions of the loop at which ros::spinOnce() is called
SpinsAt(here) == here = "ticked"

\* the loop comes round: ros::spinOnce(), the clock, the period gate passed
StepAgain ==
  /\ SpinsAt(pc)
  /\ obj' = spinOnce(obj, inbox)
  /\ inbox' = << >>
  /\ \E dt \in GatedIntervals(obj') :
       /\ now + dt <= MaxTickTime
       /\ now' = now + dt
       /\ arg' = TickStart(obj', b1_old, desiredCounter, dt)
  /\ pc' = "subRate"
  /\ pub' = << >>
  /\ calls' = << >>
  /\ UNCHANGED << opts, ok, t_old, b1_old, desiredCounter, nmsg, res >>

NextSteps ==
  \/ Arrive
  \/ StepSubRate
  \/ StepCenterOfMass
  \/ StepPrefilter
  \/ StepTrajectory
  \/ StepAttitude
  \/ StepPublishControl
  \/ StepPublishStatus
  \/ StepAgain

SpecSteps == InitSteps /\ [][NextSteps]_vars

(***************************************************************************)
(* The same statements from objects whose setpoints may ask for a thrust   *)
(* along the heading: the desired acceleration cancels gravity and the     *)
(* desired position lies ahead on the x axis, where the initial heading    *)
(* b1_d_ = (1, 0, 0) points.                                               *)
(***************************************************************************)
HeadingMsgs ==
  << [ch |-> "a_desired", vec |-> << Zero, Zero, Fin(-G) >>],
     [ch |-> "x_desired", vec |-> IntVec(1, 0, 0)] >>

HeadingObjects ==
  { spinOnce(StartedObject(p, imu, pose, vel), q) :
      p \in { [mass_ctl |-> FALSE, manipulator_ctl |-> FALSE],
              [mass_ctl |-> TRUE, manipulator_ctl |-> FALSE] },
      imu \in ImuMsgs, pose \in PoseMsgs, vel \in VelMsgs,
      q \in { << >>, HeadingMsgs } }

InitHeading == TickFrom(HeadingObjects)

SpecHeading == InitHeading /\ [][NextSteps]_vars

(***************************************************************************)
(* trajectoryTracking applied on its own, called as the loop calls it      *)
(* (with x_d_), on objects whose measured and desired position and         *)
(* velocity differ in every component.  res is what the call returns.      *)
(***************************************************************************)
\* positions and velocities (1/SCALE m, m/s)
TrackVectors == { IntVec(0, 0, 0), IntVec(1, -2, 3), IntVec(-4, 2, 1) }

TrackMsgs ==
  { << [ch |-> "pose", position |-> xm],
       [ch |-> "velocity_relative", linear |-> vm],
       [ch |-> "x_desired", vec |-> xd],
       [ch |-> "v_desired", vec |-> vd],
       [ch |-> "control_mode", data |-> m] >> :
      xm \in TrackVectors, vm \in TrackVectors, xd \in TrackVectors,
      vd \in TrackVectors, m \in {POSITION_CONTROL, ATTITUDE_CONTROL} }

TrackObjects ==
  { spinOnce(StartedObject(p, imu, pose, vel), q) :
      p \in { [mass_ctl |-> FALSE, manipulator_ctl |-> FALSE],
              [mass_ctl |-> TRUE, manipulator_ctl |-> FALSE] },
      imu \in FiniteImuMsgs, pose \in PoseMsgs, vel \in VelMsgs,
      q \in TrackMsgs }

InitTrack ==
  /\ NodeAtRest
  /\ obj \in TrackObjects
  /\ pc = "call"
  /\ calls = << >>
  /\ arg = << >>
  /\ res = << >>

Track ==
  /\ pc = "call"
  /\ res' = trajectoryTracking(obj, obj.x_d_)
  /\ obj' = IF res'.thrown THEN obj
            ELSE [obj EXCEPT !.status_msg_.e_x = res'.e_x,
                             !.status_msg_.e_v = res'.e_v]
  /\ pc' = "returned"
  /\ UNCHANGED << nodevars, calls, arg >>

NextTrack == Track

SpecTrack == InitTrack /\ [][NextTrack]_vars

(***************************************************************************)
(* calculateAdjustedInertia applied on its own, on objects of every        *)
(* variant that have received center-of-mass feedback.  arg is the         *)
(* feedback received, res the adjusted inertia.                            *)
(***************************************************************************)
\* mass positions reported by the joint controllers, and gripper positions
ProcessValues == { Zero, Fin(10), Fin(-15) }
GripperPoints == { ZeroVec3, IntVec(1, 0, 0), <<Zero, Fin(20), Fin(-30)>> }

MassFeedback ==
  { << [ch |-> "movable_mass_0/state", process_value |-> a],
       [ch |-> "movable_mass_1/state", process_value |-> b],
       [ch |-> "movable_mass_2/state", process_value |-> c],
       [ch |-> "movable_mass_3/state", process_value |-> d] >> :
      a \in ProcessValues, b \in ProcessValues,
      c \in ProcessValues, d \in ProcessValues }

GripperFeedback ==
  { << [ch |-> "left_gripper_pos", point |-> l],
       [ch |-> "right_gripper_pos", point |-> r] >> :
      l \in GripperPoints, r \in GripperPoints }

\* the feedback a node started with the options p subscribes to
FeedbackOf(o) ==
  IF o.enable_mass_control_ THEN MassFeedback
  ELSE IF o.enable_manipulator_control_ THEN GripperFeedback
  ELSE { << >> }

InitInertia ==
  /\ NodeAtRest
  /\ \E p \in [mass_ctl : BOOLEAN, manipulator_ctl : BOOLEAN] :
       \E o \in {StartupOptions(Constructor(RATE, FALSE, Zero, Zero), p)} :
         /\ arg \in FeedbackOf(o)
         /\ obj = spinOnce(o, arg)
  /\ pc = "call"
  /\ calls = << >>
  /\ res = << >>

Adjust ==
  /\ pc = "call"
  /\ res' = calculateAdjustedInertia(obj)
  /\ pc' = "returned"
  /\ UNCHANGED << obj, nodevars, calls, arg >>

NextInertia == Adjust

SpecInertia == InitInertia /\ [][NextInertia]_vars

(***************************************************************************)
(* imu_cb applied on its own to one IMU sample.  arg is the sample.        *)
(***************************************************************************)
\* level; rolled a quarter and a half turn; pitched and yawed a quarter turn
Orientations ==
  { QuatLevel, <<1, 1, 0, 0>>, QuatRolled, <<1, 0, 1, 0>>, <<1, 0, 0, 1>> }

\* body rates p, q, r (1/SCALE rad/s)
BodyRates ==
  { << p, q, r >> : p \in {Fin(-100), Zero, Fin(50)},
                    q \in {Fin(-100), Zero, Fin(50)},
                    r \in {Fin(-100), Zero, Fin(50)} }

ImuSamples ==
  { [ch |-> "imu", orientation |-> o, angular_velocity |-> w] :
      o \in Orientations, w \in BodyRates }

InitImu ==
  /\ NodeAtRest
  /\ obj = Constructor(RATE, FALSE, Zero, Zero)
  /\ pc = "call"
  /\ calls = << >>
  /\ arg \in ImuSamples
  /\ res = << >>

ReceiveImu ==
  /\ pc = "call"
  /\ obj' = spinOnce(obj, << arg >>)
  /\ pc' = "returned"
  /\ UNCHANGED << nodevars, calls, arg, res >>

NextImu == ReceiveImu

SpecImu == InitImu /\ [][NextImu]_vars

(***************************************************************************)
(* The process started at a control rate above or below the sub-rate of    *)
(* the estimator, without a variant, while a desired rotation may be sent  *)
(* to it as well.                                                          *)
(***************************************************************************)
\* the node's "rate" parameter: the one used elsewhere and a slow one (Hz)
ControlRates == { RATE, 5 }

\* a desired rotation supplied on R_desired: a quarter turn of yaw
SuppliedRotations == { euler2RotationMatrix(0, 0, 1) }

\* std_msgs::Float64MultiArray: the layout, and the matrix the data unpacks to
RotationMsgs ==
  { [ch |-> "R_desired", layout |-> "rows", data |-> R] : R \in SuppliedRotations }

InitStart ==
  /\ opts = [mass_ctl |-> FALSE, manipulator_ctl |-> FALSE]
  /\ \E rate \in ControlRates : obj = Constructor(rate, FALSE, Zero, Zero)
  /\ pc = "main"
  /\ ok = TRUE
  /\ now = 0
  /\ t_old = 0
  /\ b1_old = ZeroVec3
  /\ desiredCounter = 0
  /\ nmsg = 0
  /\ pub = << >>
  /\ calls = << >>
  /\ arg = << >>
  /\ res = << >>
  /\ inbox = << >>

NextStart == Program(Msgs \cup RotationMsgs) \/ Shutdown

SpecStart == InitStart /\ [][NextStart]_vars

(***************************************************************************)
(* Properties                                                              *)
(***************************************************************************)
\* a step of the loop body that passes the period gate: a tick
TickStarts ==
  /\ pc = "loopBody"
  /\ pc' # "loopBody"
  /\ ~PeriodGateSkips(obj', now' - t_old)

\* a tick that ends without an exception
TickCompletes == TickStarts /\ pc' = "loopHead"

TopicCount(p, T) == Cardinality({ i \in 1..Len(p) : p[i].topic \in T })

MassTopics ==
  { "movable_mass_0/command", "movable_mass_1/command",
    "movable_mass_2/command", "movable_mass_3/command" }

\* C1: whenever the loop body can run or something has been published, the
\* clock has been read nonzero and a sample of each of the IMU, pose and
\* velocity channels has been dispatched (the latched flags are set): no
\* rotor, auxiliary or status message is published before that.
SensorsBeforeOutput ==
  (pc = "loopBody" \/ pub # << >>) =>
    /\ now # 0
    /\ obj.imu_start_flag_
    /\ obj.pose_start_flag_
    /\ obj.velocity_start_flag_

\* C1, its case: a tick has published after the sensors were seen
OutputAfterSensors ==
  /\ pub # << >>
  /\ now # 0
  /\ obj.imu_start_flag_ /\ obj.pose_start_flag_ /\ obj.velocity_start_flag_

\* C2: a tick that passes the period gate while the control mode is neither
\* Position nor Attitude (Velocity and undeclared values included) has its
\* trajectory computation throw, ends the loop with the exception and
\* publishes nothing.
InvalidModeIsFatal ==
  [][ (TickStarts /\ obj'.current_control_mode_
                       \notin {POSITION_CONTROL, ATTITUDE_CONTROL})
      => /\ trajectoryTracking(obj', obj'.x_d_).thrown
         /\ pc' = "fatal"
         /\ pub' = << >> ]_vars

\* C2, its case: the loop was left by the exception in Velocity mode
FatalInVelocityMode ==
  /\ pc = "fatal"
  /\ obj.current_control_mode_ = VELOCITY_CONTROL
  /\ pub = << >>

\* C3 as stated: a tick publishes only if the angular-velocity error it
\* computed is finite in all three components (a tick whose error has a NaN
\* or infinite component aborts and publishes no rotor command).
NonFiniteErrorAborts ==
  pub # << >> => IsFinVec(obj.status_msg_.e_omega)

ExclusiveVariants ==
  /\ ~(obj.enable_mass_control_ /\ obj.enable_manipulator_control_)
  /\ (calls # << >> /\ calls[Len(calls)] = "enableMassControl")
       => (obj.enable_mass_control_ /\ ~obj.enable_manipulator_control_)
  /\ (calls # << >> /\ calls[Len(calls)] = "enableManipulatorControl")
       => (obj.enable_manipulator_control_ /\ ~obj.enable_mass_control_)

\* C5, its case: Manipulator enabled after MovableMass
ManipulatorReplacedMass ==
  /\ pc = "api"
  /\ Len(calls) >= 2
  /\ calls[Len(calls) - 1] = "enableMassControl"
  /\ calls[Len(calls)] = "enableManipulatorControl"
  /\ obj.enable_manipulator_control_
  /\ ~obj.enable_mass_control_

\* C6 as stated: when the control loop starts, the vehicle mass is the base
\* mass plus the added mass of the variant that is active, for every
\* combination of the two startup options.
MassOfActiveVariant ==
  pc = "loopHead" =>
    obj.uav_mass_ =
      Fin(UAV_MASS
          + (IF obj.enable_mass_control_ THEN 4 * MM_MASS ELSE 0)
          + (IF obj.enable_manipulator_control_
             THEN 2 * PAYLOAD_MASS + TOTAL_LINK_MASS ELSE 0))

\* C7: every tick that passes the period gate and completes publishes one
\* rotor command and then, last, one status message; before them the four
\* mass commands (one per mass) if and only if MovableMass is active and
\* the one payload command if and only if Manipulator is active, and
\* nothing else.
TickOutputPattern ==
  [][ TickCompletes =>
        LET p == pub'
            n == Len(p)
            masses == IF obj'.enable_mass_control_ THEN 4 ELSE 0
            payloads == IF obj'.enable_manipulator_control_ THEN 1 ELSE 0
        IN /\ n = masses + payloads + 2
           /\ p[n - 1].topic = "motor_speed"
           /\ p[n].topic = "uav_status"
           /\ TopicCount(p, {"motor_speed"}) = 1
           /\ TopicCount(p, {"uav_status"}) = 1
           /\ TopicCount(p, {"payload_position"}) = payloads
           /\ \A t \in MassTopics :
                TopicCount(p, {t}) = IF masses = 4 THEN 1 ELSE 0 ]_vars

\* C7, its case: a completed tick of the Manipulator variant
ManipulatorTickPublished ==
  /\ pc = "loopHead"
  /\ obj.enable_manipulator_control_
  /\ Len(pub) = 3
  /\ pub[1].topic = "payload_position"

\* the xy and z parameter of each gain matrix
GainParams ==
  { <<"k_x_", "kx_xy", "kx_z">>, <<"k_v_", "kv_xy", "kv_z">>,
    <<"k_R_", "kR_xy", "kR_z">>, <<"k_omega_", "kOm_xy", "kOm_z">> }

GainsOf(o) == << o.k_x_, o.k_v_, o.k_R_, o.k_omega_ >>

\* a step that calls param_cb
ParamsApplied ==
  /\ Len(calls') = Len(calls) + 1
  /\ calls'[Len(calls')] = "param_cb"

\* C8: the first call of param_cb leaves the four gain matrices as they are
\* and reports their xy and z entries to the reconfigure server; every
\* later call overwrites entries (0,0) and (1,1) of each gain matrix with
\* its xy parameter and entry (2,2) with its z parameter; and at all times
\* each gain matrix is diagonal with equal x and y entries.
ParamsSeedThenOverwrite ==
  /\ [][ ParamsApplied =>
           IF ~obj.param_start_flag_
           THEN /\ obj'.param_start_flag_
                /\ GainsOf(obj') = GainsOf(obj)
                /\ \A g \in GainParams :
                     /\ obj'.server_config_[g[2]] = obj[g[1]][1][1]
                     /\ obj'.server_config_[g[3]] = obj[g[1]][3][3]
           ELSE \A g \in GainParams :
                  /\ obj'[g[1]][1][1] = arg'[g[2]]
                  /\ obj'[g[1]][2][2] = arg'[g[2]]
                  /\ obj'[g[1]][3][3] = arg'[g[3]] ]_vars
  /\ [](\A g \in GainParams :
          /\ obj[g[1]][1][1] = obj[g[1]][2][2]
          /\ \A i, j \in 1..3 : i # j => obj[g[1]][i][j] = Zero)

\* C8, its case: a second call of param_cb has overwritten the gains
GainsOverwritten ==
  /\ Len(calls) >= 2
  /\ calls[1] = "param_cb"
  /\ calls[Len(calls)] = "param_cb"
  /\ obj.k_x_ = Diag3(arg.kx_xy, arg.kx_xy, arg.kx_z)
  /\ obj.k_x_ # Constructor(RATE, FALSE, Zero, Zero).k_x_

\* the control outputs among what a tick published: the rotor and auxiliary
\* commands, and f_u and M_u as the status message carries them
ControlOutputs(p) ==
  [ i \in 1..Len(p) |->
      IF p[i].topic = "uav_status" THEN SubSeq(p[i].data, 1, 4) ELSE p[i] ]

\* C9 as stated: in Position mode two runs of a tick that differ only in a
\* message on the desired-rotation, desired-Euler, desired-angular-velocity
\* or desired-angular-acceleration channel publish the same control outputs.
PositionModeIgnoresAttitudeChannels ==
  pc = "returned" => ControlOutputs(res.low) = ControlOutputs(res.high)

\* C10 as stated: from the moment ros::ok() is false no tick starts and
\* nothing is published.
NothingAfterShutdown ==
  [][ ~ok => (~TickStarts /\ pub' = << >>) ]_vars

\* C10: once ros::ok() is false and the loop is not inside an iteration it
\* has already begun, no iteration begins and nothing is published (the
\* iteration in progress when ros::ok() turns false still runs its tick);
\* and the loop ends, by leaving the while loop or by an exception.
ShutdownStopsLoop ==
  /\ [][ (~ok /\ pc # "loopBody") =>
           (~TickStarts /\ pub' = << >> /\ pc' # "loopBody") ]_vars
  /\ (~ok) ~> (pc \in {"done", "fatal"})

\* C10, its case: the running loop was left after shutdown was requested
LoopLeftOnShutdown ==
  /\ pc = "done"
  /\ ~ok
  /\ obj.imu_start_flag_ /\ obj.pose_start_flag_ /\ obj.velocity_start_flag_

\* the three sensor-received flags of the object
SensorFlags(o) ==
  << o.imu_start_flag_, o.pose_start_flag_, o.velocity_start_flag_ >>

\* C11: if the clock becomes nonzero, a first sample is eventually received on
\* each of the IMU, pose and velocity channels, in whatever order, and
\* shutdown is never requested, then the process eventually reaches the
\* control loop; and a sensor-received flag that is set is never cleared.
StartupCompletes ==
  /\ [][ \A i \in 1..3 : SensorFlags(obj)[i] => SensorFlags(obj')[i] ]_vars
  /\ ( /\ []ok
       /\ <>(now # 0)
       /\ <>obj.imu_start_flag_
       /\ <>obj.pose_start_flag_
       /\ <>obj.velocity_start_flag_ )
     => <>(pc = "loopHead")

\* the loop is reached with the velocity sample received before the IMU's
StartupCompleted ==
  /\ pc = "loopHead"
  /\ ok
  /\ now # 0
  /\ SensorFlags(obj) = << TRUE, TRUE, TRUE >>
  /\ nmsg = 3
  /\ t_old < now

\* x is a number of the interval [-limit, limit]
Within(x, limit) == x.k = "fin" /\ -limit.v <= x.v /\ x.v <= limit.v

\* the data of the messages of pub on the given topic
CommandsOn(topic) ==
  { pub[i].data : i \in { j \in 1..Len(pub) : pub[j].topic = topic } }

\* C12: with MovableMass active every mass-position command published lies
\* in [-ARM_LENGTH/2, ARM_LENGTH/2] and the commands of masses 0 and 2, and of
\* masses 1 and 3, are negatives of each other; with Manipulator active both
\* components of the payload-position command lie in [-0.15, 0.15].
AuxiliaryCommandsBounded ==
  /\ \A T \in MassTopics : \A d \in CommandsOn(T) : Within(d[1], HalfArm)
  /\ \A a \in CommandsOn("movable_mass_0/command") :
       \A b \in CommandsOn("movable_mass_2/command") : a[1] = FNeg(b[1])
  /\ \A a \in CommandsOn("movable_mass_1/command") :
       \A b \in CommandsOn("movable_mass_3/command") : a[1] = FNeg(b[1])
  /\ \A d \in CommandsOn("payload_position") :
       Within(d[1], Fin(15)) /\ Within(d[2], Fin(15))
  /\ (pub # << >> /\ obj.enable_mass_control_) =>
       \A T \in MassTopics : CommandsOn(T) # {}
  /\ (pub # << >> /\ ~obj.enable_mass_control_ /\ obj.enable_manipulator_control_)
       => CommandsOn("payload_position") # {}

\* a MovableMass tick whose mass commands sit at the end of the travel
MassCommandsSaturated ==
  /\ obj.enable_mass_control_
  /\ \E a \in CommandsOn("movable_mass_0/command") :
       \E b \in CommandsOn("movable_mass_2/command") :
         a[1] # Zero /\ a[1] = FNeg(b[1]) /\ Abs(a[1].v) = HalfArm.v

\* C13: a loop iteration whose elapsed time since the last executed tick is
\* less than the period 1/rate publishes nothing and leaves t_old, the
\* sub-rate accumulator, the prefilter state b1_old, R_c_old_, R_c_dot_old_
\* and the center of mass ro_cm_ as they were; the object is changed by the
\* callbacks of that iteration's spinOnce() and by nothing else.
GateSkipChangesNothing ==
  [][ ( /\ pc = "loopBody"
        /\ pc' # "loopBody"
        /\ (now' - t_old) * obj'.controller_rate_ < CLOCK_HZ )
      => /\ pub' = << >>
         /\ pc' = "loopHead"
         /\ t_old' = t_old
         /\ desiredCounter' = desiredCounter
         /\ b1_old' = b1_old
         /\ obj'.R_c_old_ = obj.R_c_old_
         /\ obj'.R_c_dot_old_ = obj.R_c_dot_old_
         /\ obj'.ro_cm_ = obj.ro_cm_
         /\ \E q \in Arrivals(Msgs, obj, nmsg) : obj' = spinOnce(obj, q) ]_vars

\* after a tick that left the accumulator nonzero, an iteration has ended one
\* clock unit later, inside the period, with a message dispatched in between
SkippedInsidePeriod ==
  /\ pc = "loopHead"
  /\ ok
  /\ 0 < now - t_old
  /\ (now - t_old) * obj.controller_rate_ < CLOCK_HZ
  /\ desiredCounter > 0
  /\ pub = << >>
  /\ nmsg = MaxMsgs

\* the order of a tick's steps; the estimator only when the accumulator is due
StepOrder(due) ==
  << "accumulator" >> \o (IF due THEN << "estimator" >> ELSE << >>)
    \o << "prefilter", "trajectory", "attitude", "allocation", "commands",
          "status" >>

IsPrefix(s, t) == Len(s) <= Len(t) /\ \A i \in 1..Len(s) : s[i] = t[i]

\* the topics of the published messages, in the order of publication
TopicsOf(p) == [ i \in 1..Len(p) |-> p[i].topic ]

\* C14: in every gated tick the accumulator is advanced and, if due, the
\* estimator is called; then the prefilter, trajectory tracking, attitude
\* tracking and the rotor allocation run, in that order; then the commands
\* are published, the rotor command after the auxiliary ones, and last the
\* status message.  A tick that has run to its end has produced what the
\* loop's tick produces, and a tick that threw has published nothing.
TickStepsInOrder ==
  /\ pc \in {"subRate", "centerOfMass", "prefilter", "trajectory", "attitude",
             "control", "status", "ticked", "fatal"}
  /\ IsPrefix(SelectSeq(calls, LAMBDA c : c # "centerOfMass"),
              StepOrder(SubRateDue(arg.counter + arg.dt)))
  /\ pc = "ticked" =>
       /\ Len(SelectSeq(calls, LAMBDA c : c # "centerOfMass"))
            = Len(StepOrder(SubRateDue(arg.counter + arg.dt)))
       /\ TopicsOf(pub)
            = TopicsOf(AuxiliaryCommands(obj, res.M_u))
                \o << "motor_speed", "uav_status" >>
       /\ [ o |-> obj, b1_old |-> b1_old, counter |-> desiredCounter,
            thrown |-> "none", pubs |-> pub ]
            = ControlTick(arg.o, arg.b1_old, arg.counter, arg.dt)
  /\ pc = "fatal" =>
       /\ pub = << >>
       /\ [ o |-> obj, b1_old |-> b1_old, counter |-> desiredCounter,
            thrown |-> res.thrown, pubs |-> pub ]
            = ControlTick(arg.o, arg.b1_old, arg.counter, arg.dt)

\* a second tick of a MovableMass vehicle, with the estimator due, has run
\* to its end
SecondTickComplete ==
  /\ pc = "ticked"
  /\ obj.enable_mass_control_
  /\ Len(pub) = 6
  /\ calls[2] = "estimator"
  /\ t_old > MaxStep + 1

\* R_c_old_ and R_c_dot_old_, the state of the desired-rate estimator
DerivativeState(o) == << o.R_c_old_, o.R_c_dot_old_ >>

RollPitchVariants(M_u) ==
  { << r, p, M_u[3] >> : r \in RollPitchGrid, p \in RollPitchGrid }

\* C16: the rotor command a tick publishes is calculateRotorVelocities of
\* (f_u, M_u) under the yaw/thrust-only matrix when MovableMass or
\* Manipulator is active, and is then the same for every other roll and
\* pitch moment; with no variant active it is computed with the full matrix,
\* and, unless a rotor is at its speed limit, changes with the roll and pitch
\* moment.
RotorCommandIgnoresRollPitch ==
  pc \in {"status", "ticked"} =>
    \A d \in CommandsOn("motor_speed") :
      IF VariantActive(obj)
      THEN /\ d = calculateRotorVelocities(
                    << res.f_u, res.M_u[1], res.M_u[2], res.M_u[3] >>,
                    THRUST_TRANSFORM_YAW)
           /\ \A M \in RollPitchVariants(res.M_u) :
                publishControlInputs(obj, res.f_u, M).rotor_velocities = d
      ELSE /\ d = calculateRotorVelocities(
                    << res.f_u, res.M_u[1], res.M_u[2], res.M_u[3] >>,
                    THRUST_TRANSFORM_FULL)
           /\ (\A i \in 1..4 : IsFin(d[i]) /\ Abs(d[i].v) < MAX_ROTOR_VELOCITY)
                => \E M \in RollPitchVariants(res.M_u) :
                     publishControlInputs(obj, res.f_u, M).rotor_velocities # d

\* a Manipulator tick with a roll or pitch moment has published its rotor
\* command
RotorCommandUnderVariant ==
  /\ pc = "status"
  /\ obj.enable_manipulator_control_
  /\ res.M_u[1] # Zero \/ res.M_u[2] # Zero
  /\ IsFin(res.f_u)
  /\ \E d \in CommandsOn("motor_speed") : d[1] # Zero /\ IsFin(d[1])

\* C17: the control moment of every tick that attitude tracking completes,
\* as reported in the status message and as handed to the rotor allocation,
\* has roll and pitch components in [-5, 5] and a yaw component in
\* [-2.5, 2.5].
MomentWithinLimits ==
  \A s \in CommandsOn("uav_status") :
    /\ Within(s[2], Fin(500))
    /\ Within(s[3], Fin(500))
    /\ Within(s[4], Fin(250))
    /\ CommandsOn("motor_speed")
         = { calculateRotorVelocities(<< s[1], s[2], s[3], s[4] >>,
                                      TransformOf(obj)) }

\* a tick has published a moment whose roll and yaw components sit at their
\* limits
MomentAtLimit ==
  \E s \in CommandsOn("uav_status") :
    /\ Abs(s[2].v) = 500
    /\ Abs(s[4].v) = 250
    /\ IsFin(s[2]) /\ IsFin(s[4])

\* the x and y components other positions and velocities may have
LateralValues == { << Fin(-300), Fin(700) >>, << Inf(1), Zero >> }

\* the objects that differ from o in the x and y components of the measured
\* and desired position and velocity only
LateralVariants(o) ==
  { [ o EXCEPT !.x_mv_ = << a[1], a[2], o.x_mv_[3] >>,
               !.x_d_ = << b[1], b[2], o.x_d_[3] >>,
               !.v_mv_ = << c[1], c[2], o.v_mv_[3] >>,
               !.v_d_ = << d[1], d[2], o.v_d_[3] >> ] :
      a \in LateralValues, b \in LateralValues,
      c \in LateralValues, d \in LateralValues }

\* the difference of two finite vectors, in integers
Difference(a, b) == << Fin(a[1].v - b[1].v), Fin(a[2].v - b[2].v), Fin(a[3].v - b[3].v) >>

\* C18: for finite measurements and setpoints, in Attitude mode e_x and e_v
\* are (0, 0, measured z - desired z), and f_u and b3_d are the same for
\* every other x and y component of the measured and desired position and
\* velocity; in Position mode e_x and e_v are measured minus desired in all
\* three components.
AttitudeModeTracksHeightOnly ==
  pc = "returned" =>
    /\ ~res.thrown
    /\ obj.status_msg_.e_x = res.e_x
    /\ obj.status_msg_.e_v = res.e_v
    /\ IF obj.current_control_mode_ = ATTITUDE_CONTROL
       THEN /\ res.e_x = << Zero, Zero, Difference(obj.x_mv_, obj.x_d_)[3] >>
            /\ res.e_v = << Zero, Zero, Difference(obj.v_mv_, obj.v_d_)[3] >>
            /\ \A o \in LateralVariants(obj) :
                 /\ trajectoryTracking(o, o.x_d_).f_u = res.f_u
                 /\ trajectoryTracking(o, o.x_d_).b3_d = res.b3_d
       ELSE /\ res.e_x = Difference(obj.x_mv_, obj.x_d_)
            /\ res.e_v = Difference(obj.v_mv_, obj.v_d_)

\* trajectoryTracking has returned in Attitude mode for a vehicle that is
\* off its setpoint sideways and in height
TrackedOffSetpoint ==
  /\ pc = "returned"
  /\ obj.current_control_mode_ = ATTITUDE_CONTROL
  /\ obj.x_mv_[1] # obj.x_d_[1]
  /\ obj.v_mv_[2] # obj.v_d_[2]
  /\ res.e_x[3] # Zero
  /\ res.e_x[1] = Zero

\* all center-of-mass feedback received is at the neutral position
NeutralFeedback ==
  \A i \in 1..Len(arg) :
    IF arg[i].ch \in {"left_gripper_pos", "right_gripper_pos"}
    THEN arg[i].point = ZeroVec3
    ELSE arg[i].process_value = Zero

\* C19: with a variant active and all center-of-mass feedback at the neutral
\* position (the four mass offsets 0 under MovableMass, both grippers at the
\* origin under Manipulator) the adjusted inertia equals the base inertia.
NeutralInertiaIsBase ==
  (pc = "returned" /\ VariantActive(obj) /\ NeutralFeedback)
    => res = obj.inertia_

\* C20: after an IMU sample with the body rates (p, q, r) the stored angular
\* velocity omega_mv_ is (p, q, r), whatever the orientation of the sample.
BodyRatesStored ==
  pc = "returned" => obj.omega_mv_ = arg.angular_velocity

\* PAYLOAD_MASS times the sum of the squares of components i and j of the
\* gripper position g
PayloadTerm(g, i, j) ==
  FMul(FAdd(FMul(g[i], g[i]), FMul(g[j], g[j])), Fin(PAYLOAD_MASS))

\* the diagonal term the claim gives for an axis whose orthogonal
\* components are i and j
ClaimedInertiaTerm(o, axis, i, j) ==
  FAdd(FAdd(FAdd(o.inertia_[axis][axis], PayloadTerm(o.gripperLeft_mv_, i, j)),
            PayloadTerm(o.gripperRight_mv_, i, j)),
       FMul(FInt(2), o.payload_inertia_[axis][axis]))

\* C21: with Manipulator active each diagonal term of the adjusted inertia
\* is the base term plus PAYLOAD_MASS * (sum of the squares of the two
\* orthogonal components) for each gripper plus twice the payload's own
\* inertia about the axis.
ManipulatorInertiaFormula ==
  (pc = "returned" /\ ~obj.enable_mass_control_ /\ obj.enable_manipulator_control_)
    => /\ res[1][1] = ClaimedInertiaTerm(obj, 1, 2, 3)
       /\ res[2][2] = ClaimedInertiaTerm(obj, 2, 1, 3)
       /\ res[3][3] = ClaimedInertiaTerm(obj, 3, 1, 2)


\* what the input callbacks write and the statements of a tick only read:
\* the control mode, the setpoints, the measurements, the gains and the
\* actuation feedback
InputsOf(o) ==
  << o.current_control_mode_, o.x_d_, o.v_d_, o.a_d_, o.b1_d_, o.euler_d_,
     o.x_mv_, o.v_mv_, o.R_mv_, o.euler_mv_, o.omega_mv_,
     o.k_x_, o.k_v_, o.k_R_, o.k_omega_,
     o.mass0_mv_, o.mass1_mv_, o.mass2_mv_, o.mass3_mv_,
     o.gripperLeft_mv_, o.gripperRight_mv_ >>

\* C22: the input callbacks run only in the spinOnce() at the head of a loop
\* iteration: no step taken from inside a tick changes the mode, a setpoint, a
\* measurement, a gain or the actuation feedback, so every statement of the
\* tick sees the inputs the tick started with, whatever arrives meanwhile, and
\* the loop never ends in attitude tracking's invalid-mode error, since
\* trajectory tracking has rejected that mode before
CallbacksOnlyAtLoopHead ==
  [][ /\ pc # "ticked" => InputsOf(obj') = InputsOf(obj)
      /\ InputsOf(obj') = InputsOf(arg'.o)
      /\ (pc' = "fatal" /\ calls'[Len(calls')] = "attitude")
           => res'.thrown # "mode" ]_vars

\* an invalid mode arrived after trajectory tracking accepted the mode of the
\* tick, and attitude tracking has run in the accepted mode all the same
ModeChangeWaitsForNextSpin ==
  /\ pc = "control"
  /\ \E i \in 1..Len(inbox) :
       /\ inbox[i].ch = "control_mode"
       /\ inbox[i].data \notin {POSITION_CONTROL, ATTITUDE_CONTROL}
  /\ \E i \in 1..Len(inbox) : inbox[i].ch = "x_desired" /\ inbox[i].vec # obj.x_d_
  /\ obj.current_control_mode_ = arg.o.current_control_mode_
  /\ res.thrown = "none"


\* the plane normal b3_d x b1_des of attitudeTracking has zero length
PlaneNormalVanishes(b1_desired, b3_desired) ==
  Norm(Cross(b3_desired, b1_desired)) = Zero

\* C23: in Position mode, when attitude tracking is called with a thrust
\* direction parallel to the prefiltered heading (a plane normal of zero
\* length), the desired rotation it constructs is not finite, the angular
\* velocity error is NaN, and the tick ends there in the fatal angular velocity
\* error condition, with no rotor command published
ParallelHeadingIsFatal ==
  [][ ( /\ pc = "attitude"
        /\ pc' # "attitude"
        /\ obj.current_control_mode_ = POSITION_CONTROL
        /\ PlaneNormalVanishes(res.b1_des, res.b3_d) )
      => /\ \E i \in 1..3 : ~IsFinVec(obj'.R_d_[i])
         /\ IsNaN(AngularVelocityError(obj, obj'.R_d_)[1])
         /\ pc' = "fatal"
         /\ res'.thrown = "nan"
         /\ pub' = << >> ]_vars

\* attitude tracking has met a finite thrust direction parallel to the finite
\* heading, and the loop is in the fatal state
ParallelHeadingMet ==
  /\ pc = "fatal"
  /\ calls[Len(calls)] = "attitude"
  /\ obj.current_control_mode_ = POSITION_CONTROL
  /\ IsFinVec(res.b1_des) /\ IsFinVec(res.b3_d)
  /\ res.b3_d = res.b1_des
  /\ IsFinVec(obj.omega_mv_)
  /\ pub = << >>


\* the positions of runControllerLoop before its loop
StartupPositions == {"waitClock", "waitImu", "waitPose", "waitVelocity"}

\* In a step of the loop body taken when a sub-rate interval or more has passed
\* since t_old, at a control rate that rateOk admits, with Position the mode of
\* the tick: the period gate is passed and the estimator has run on the
\* desired rotation the object held after the spinOnce() of the iteration
DueIterationEstimates(rateOk) ==
  ( /\ pc = "loopBody"
    /\ pc' # "loopBody"
    /\ (now' - t_old) * DISCRETIZATION_RATE >= CLOCK_HZ
    /\ rateOk
    /\ obj'.current_control_mode_ = POSITION_CONTROL )
  => /\ t_old' = now'
     /\ desiredCounter' = 0
     /\ obj'.R_c_old_ \in {obj.R_d_} \cup SuppliedRotations
     /\ obj'.R_c_dot_old_ =
          MatDivS(MatSub(obj'.R_c_old_, obj.R_c_old_), desiredTimeInterval)

\* t_old is captured before the startup waits, which leave it alone, and the
\* waits end with no desired rotation constructed: R_d_ is the all-zero matrix
\* of setInitialValues unless R_desired supplied one, and the estimator's
\* state is the initial one
StartupKeepsTimestamp ==
  /\ (pc \in StartupPositions /\ pc' # "done") => t_old' = t_old
  /\ pc' \in StartupPositions
       => /\ obj'.R_d_ \in {ZeroMat3} \cup SuppliedRotations
          /\ obj'.R_c_old_ = EYE3
          /\ obj'.R_c_dot_old_ = ZeroMat3
  /\ (pc = "waitVelocity" /\ pc' = "loopHead")
       => /\ desiredCounter' = 0
          /\ obj'.R_d_ \in {ZeroMat3} \cup SuppliedRotations
          /\ obj'.R_c_old_ = EYE3

=============================================================================
